---- MODULE Spec2Model ----
(***************************************************************************)
(* A state-machine model of the possession-inference and event-detection   *)
(* pipeline of the basketball video analyser:                              *)
(*   - BallAcqsDetector   (src/src/ball_acquisition/ball_acqs_detector.py) *)
(*   - PassAndInterceptionDetector                                         *)
(*       (src/src/pass_and_interception/pass_and_interception_detector.py) *)
(*   - Homography         (src/src/court/homography.py)                    *)
(*   - CourtMap           (src/src/court/court_map.py)                     *)
(* Python dicts are modelled as functions (int keys) or as sequences of    *)
(* [id, bbox] records where the iteration order of the dict matters.       *)
(* Floating point: coordinates are integers, so every comparison the code  *)
(* makes on a float (a ratio against 0.8, a distance against 50, a max or  *)
(* a min of ratios or distances) is decided exactly on integers: ratios by *)
(* cross-multiplication, distances by their squares.                       *)
(***************************************************************************)
EXTENDS Integers, Sequences, FiniteSets, TLC

VARIABLES
    mode,                  \* which component this behaviour exercises
    \* ---- BallAcqsDetector.detect_ball_possession ----
    player_tracks,         \* per-frame player dicts read so far (ordered)
    ball_tracks,           \* per-frame ball dicts read so far
    num_frames,            \* len(ball_tracks)
    num_player_frames,     \* len(player_tracks)
    possession_raised,     \* the loop ended in IndexError
    frame_num,             \* next value of the loop variable
    possession_list,       \* the output list, [-1] * num_frames at start
    consecutive_poss_cnt,  \* the streak dict {player_id: count}
    runs,                  \* number of maximal constant segments of the input
    candidates,            \* log: what each processed frame offered the debounce
    \* ---- BallAcqsDetector.find_best_cndt_for_poss (called alone) ----
    cndt_ball_bbox,        \* argument ball_bbox
    cndt_players,          \* argument player_tracks_frame
    cndt_result,           \* NotCalled, or Returned(player id)
    \* ---- PassAndInterceptionDetector ----
    ball_acquisition,      \* argument: possession series
    player_teams,          \* argument: per-frame {player_id: team_id}
    passes,                \* NotCalled, or Returned(list of detect_passes)
    interceptions,         \* NotCalled, or Returned(list of detect_interception)
    \* ---- Homography ----
    source,                \* argument of the constructor (an array)
    target,                \* argument of the constructor (an array)
    homography,            \* NotCalled, Returned(instance) or Raised(error)
    points,                \* argument of transform_points (an array)
    trans_points,          \* NotCalled, Returned(array) or Raised(error)
    \* ---- CourtMap.integrate_players_into_map ----
    keypoints_list,        \* argument: per-frame detected keypoints
    map_player_tracks,     \* argument player_tracks: per-frame player dicts
    map_player_positions,  \* NotCalled, Returned(list) or Raised(error)
    homography_calls,      \* log: the arguments of every Homography(...) built
    \* ---- CourtMap.validate_map ----
    vm_keypoints_list,     \* argument keypoints_list: per-frame keypoints
    vm_result,             \* NotCalled, or Returned(validated keypoints list)
    vm_checks,             \* log: per frame, the comparisons validate_map made
    \* ---- SpeedAndDistCalc ----
    player_positions,      \* argument of calc_dist: the frames read so far
    kin_num_frames,        \* len(player_positions)
    kin_fps,               \* argument fps of calc_speed
    kin_frame_num,         \* next value of calc_dist's loop variable
    prev_player_positions, \* calc_dist's dict {player_id: last position}
    out_distances,         \* calc_dist's output list
    kin_runs,              \* number of maximal constant segments of the input
    speeds,                \* NotCalled, or Returned(list of calc_speed)
    \* ---- BallTracker.get_object_tracks, stub_utils ----
    detections,            \* what detect_frames yields: per-frame detections
    read_from_stub,        \* argument read_from_stub
    stub_path,             \* argument stub_path
    dirs,                  \* the directories that exist
    files,                 \* the pickle files that exist: {path: object}
    object_tracks,         \* NotCalled, Returned(tracks) or Raised(error)
    \* ---- BallTracker.trim_false_detections ----
    ball_positions,        \* argument ball_positions (modified in place)
    trim_input,            \* log: ball_positions as it was passed
    trim_result            \* NotCalled, or Returned(list)

vars == <<mode, player_tracks, ball_tracks, num_frames, num_player_frames,
          possession_raised, frame_num,
          possession_list, consecutive_poss_cnt, runs, candidates,
          cndt_ball_bbox, cndt_players, cndt_result,
          ball_acquisition, player_teams, passes, interceptions,
          source, target, homography, points, trans_points,
          keypoints_list, map_player_tracks, map_player_positions,
          homography_calls,
          vm_keypoints_list, vm_result, vm_checks,
          player_positions, kin_num_frames, kin_fps, kin_frame_num,
          prev_player_positions, out_distances, kin_runs, speeds,
          detections, read_from_stub, stub_path, dirs, files,
          object_tracks,
          ball_positions, trim_input, trim_result>>

possVars == <<player_tracks, ball_tracks, num_frames, num_player_frames,
              possession_raised, frame_num,
              possession_list, consecutive_poss_cnt, runs, candidates>>
cndtVars == <<cndt_ball_bbox, cndt_players, cndt_result>>
passVars == <<ball_acquisition, player_teams, passes, interceptions>>
hgVars == <<source, target, homography, points, trans_points>>
mapVars == <<keypoints_list, map_player_tracks, map_player_positions,
             homography_calls>>
vmVars == <<vm_keypoints_list, vm_result, vm_checks>>
kinVars == <<player_positions, kin_num_frames, kin_fps, kin_frame_num,
             prev_player_positions, out_distances, kin_runs, speeds>>
btVars == <<detections, read_from_stub, stub_path, dirs, files,
            object_tracks>>
trimVars == <<ball_positions, trim_input, trim_result>>
\* the variables of validate_map, SpeedAndDistCalc and BallTracker
restVars == <<vmVars, kinVars, btVars, trimVars>>

-----------------------------------------------------------------------------
(* Program constants *)

possession_threshold == 50
min_frames == 11
\* containment_threshold = 0.8 = ContainmentNum / ContainmentDen
ContainmentNum == 4
ContainmentDen == 5
\* the sentinel "no player / no team / no event"
NoId == -1
\* the reserved ball identity
BallId == 1

(* Bounds of the model *)

\* longest video (number of frames) of the possession detector
MaxFrames == 17
\* the per-frame input of the possession detector is piecewise constant with
\* at most MaxRuns segments
MaxRuns == 3
\* longest possession series given to the pass / interception detectors
MaxPassFrames == 4
\* most players in a frame given to find_best_cndt_for_poss alone
MaxPlayers == 2

\* a result variable holds NotCalled until the call ends, then
\* Returned(value), or Raised(err) when the call ended in an exception
NotCalled == << >>
Returned(value) == <<value>>
ValueOf(result) == result[1]
Raised(err) == <<"raised", err>>
IsReturned(result) == Len(result) = 1
IsRaised(result) == Len(result) = 2

\* the lengths of the videos given to the possession detector
VideoLengths == {0, 1, MaxFrames}

-----------------------------------------------------------------------------
(* Python dict helpers *)

EmptyDict == [k \in {} |-> 0]

\* d.get(k, default)
Get(d, k, default) == IF k \in DOMAIN d THEN d[k] ELSE default

SetMin(S) == CHOOSE m \in S : \A x \in S : m <= x

-----------------------------------------------------------------------------
(* utils/bbox_utils.py *)

\* int(s / 2): truncation toward zero
IntHalf(s) == IF s >= 0 THEN s \div 2 ELSE -((-s) \div 2)

get_center_of_bbox(bbox) ==
    <<IntHalf(bbox[1] + bbox[3]), IntHalf(bbox[2] + bbox[4])>>

-----------------------------------------------------------------------------
(* BallAcqsDetector: the per-frame geometry *)

get_key_player_bbox_points(player_bbox, ball_center) ==
    LET ball_x == ball_center[1]
        ball_y == ball_center[2]
        x1 == player_bbox[1]
        y1 == player_bbox[2]
        x2 == player_bbox[3]
        y2 == player_bbox[4]
        width  == x2 - x1
        height == y2 - y1
        horizontal == IF y1 < ball_y /\ ball_y < y2
                      THEN << <<x1, ball_y>>, <<x2, ball_y>> >> ELSE << >>
        vertical   == IF x1 < ball_x /\ ball_x < x2
                      THEN << <<ball_x, y1>>, <<ball_x, y2>> >> ELSE << >>
    IN  horizontal \o vertical \o
        << <<x1, y1>>, <<x2, y1>>, <<x1, y2>>, <<x2, y2>>,
           <<x1 + (width \div 2), y1>>, <<x1 + (width \div 2), y2>>,
           <<x1, y1 + (height \div 2)>>, <<x2, y1 + (height \div 2)>> >>

\* math.dist(p, q) squared
DistSq(p, q) == (p[1] - q[1]) * (p[1] - q[1]) + (p[2] - q[2]) * (p[2] - q[2])

\* The SQUARE of the value the code returns (the minimum over the key points
\* of math.dist): the code only compares the value with other such values and
\* with possession_threshold, and squaring keeps the order of non-negatives.
min_dist_to_ball(player_bbox, ball_center) ==
    LET key_points == get_key_player_bbox_points(player_bbox, ball_center)
    IN  SetMin({DistSq(ball_center, key_points[i]) : i \in DOMAIN key_points})

Max2(a, b) == IF a >= b THEN a ELSE b
Min2(a, b) == IF a <= b THEN a ELSE b

\* The ratio as an exact fraction [num, den] with den > 0
\* (0 is [0, 1], as in "if ball_area != 0 else 0").
calc_ball_cont_ratio(player_bbox, ball_bbox) ==
    LET px1 == player_bbox[1]
        py1 == player_bbox[2]
        px2 == player_bbox[3]
        py2 == player_bbox[4]
        bx1 == ball_bbox[1]
        by1 == ball_bbox[2]
        bx2 == ball_bbox[3]
        by2 == ball_bbox[4]
        ball_area == (bx2 - bx1) * (by2 - by1)
        intsc_x1 == Max2(px1, bx1)
        intsc_y1 == Max2(py1, by1)
        intsc_x2 == Min2(px2, bx2)
        intsc_y2 == Min2(py2, by2)
        intersection_area ==
            Max2(0, intsc_x2 - intsc_x1) * Max2(0, intsc_y2 - intsc_y1)
    IN  IF ball_area > 0 THEN [num |-> intersection_area, den |-> ball_area]
        ELSE IF ball_area < 0
             THEN [num |-> -intersection_area, den |-> -ball_area]
             ELSE [num |-> 0, den |-> 1]

\* a > b on fractions with positive denominators
RatioGT(a, b) == a.num * b.den > b.num * a.den

\* containment > self.containment_threshold
IsClose(containment) ==
    RatioGT(containment, [num |-> ContainmentNum, den |-> ContainmentDen])

\* mutant: the threshold itself still counts as within
WithinThreshold_Inclusive(dist_sq) ==
    dist_sq <= possession_threshold * possession_threshold

\* best_candidate[1] < self.possession_threshold, on the squared distance
WithinThreshold(dist_sq) ==
    dist_sq < possession_threshold * possession_threshold

\* mutant: among the close players the nearest one wins
BestClose_Nearest(close_players) ==
    LET i == CHOOSE i \in DOMAIN close_players :
                 /\ \A j \in DOMAIN close_players :
                        close_players[i].min_dist <= close_players[j].min_dist
                 /\ \A j \in 1..(i - 1) :
                        close_players[j].min_dist > close_players[i].min_dist
    IN  close_players[i]

\* max(close_players, key=containment): the first maximal element
BestClose(close_players) ==
    LET i == CHOOSE i \in DOMAIN close_players :
                 /\ \A j \in DOMAIN close_players :
                        ~RatioGT(close_players[j].containment,
                                 close_players[i].containment)
                 /\ \A j \in 1..(i - 1) :
                        RatioGT(close_players[i].containment,
                                close_players[j].containment)
    IN  close_players[i]

\* min(reg_dist_players, key=min_dist): the first minimal element
BestRegDist(reg_dist_players) ==
    LET i == CHOOSE i \in DOMAIN reg_dist_players :
                 /\ \A j \in DOMAIN reg_dist_players :
                        reg_dist_players[i].min_dist <= reg_dist_players[j].min_dist
                 /\ \A j \in 1..(i - 1) :
                        reg_dist_players[j].min_dist > reg_dist_players[i].min_dist
    IN  reg_dist_players[i]

\* player_tracks_frame: the dict in iteration order, a sequence of
\* [id, bbox]; bbox = <<>> stands for a missing or empty "bbox".
find_best_cndt_for_poss(ball_bbox, ball_center, player_tracks_frame) ==
    LET HasBbox(p) == p.bbox # << >>
        Measure(p) == [id          |-> p.id,
                       containment |-> calc_ball_cont_ratio(p.bbox, ball_bbox),
                       min_dist    |-> min_dist_to_ball(p.bbox, ball_center)]
        with_bbox == SelectSeq(player_tracks_frame, HasBbox)
        measured  == [i \in DOMAIN with_bbox |-> Measure(with_bbox[i])]
        CloseP(m) == IsClose(m.containment)
        RegP(m)   == ~IsClose(m.containment)
        close_players    == SelectSeq(measured, CloseP)
        reg_dist_players == SelectSeq(measured, RegP)
    IN  IF close_players # << >>
        THEN BestClose(close_players).id
        ELSE IF reg_dist_players # << >>
                /\ WithinThreshold(BestRegDist(reg_dist_players).min_dist)
             THEN BestRegDist(reg_dist_players).id
             ELSE NoId

-----------------------------------------------------------------------------
(* Inputs: bounding boxes and frames *)

\* a 10 x 10 ball with centre (105, 105), and a zero-area ball
BallBox     == <<100, 100, 110, 110>>
FlatBallBox == <<100, 100, 100, 110>>

\* player boxes, named by their relation to BallBox
ContainsBox == <<90, 60, 130, 160>>     \* containment 1, distance 15
Cont90Box   == <<101, 60, 130, 160>>    \* containment 0.9
Cont80Box   == <<102, 60, 130, 160>>    \* containment exactly 0.8
HalfBox     == <<105, 60, 150, 160>>    \* containment 0.5, distance 0
TouchBox    == <<110, 60, 150, 160>>    \* containment 0, distance 5
Edge49Box   == <<154, 60, 200, 160>>    \* distance 49 (edge point)
Edge50Box   == <<155, 60, 200, 160>>    \* distance exactly 50 (edge point)
Corner49Box == <<134, 145, 200, 200>>   \* distance < 50 (corner)
Corner50Box == <<135, 145, 200, 200>>   \* distance exactly 50 (corner)
FarBox      == <<300, 60, 340, 160>>    \* far away

PlayerBoxes == {ContainsBox, Cont90Box, Cont80Box, HalfBox, TouchBox,
                Edge49Box, Edge50Box, Corner49Box, Corner50Box, FarBox,
                << >>}

\* ball dicts of one frame: {}, {1: {"bbox": []}}, {1: {"bbox": b}}
BallAbsent    == EmptyDict
BallEmptyBbox == (BallId :> [bbox |-> << >>])
BallAt(b)     == (BallId :> [bbox |-> b])

Player(id, bbox) == [id |-> id, bbox |-> bbox]

\* The frames a video of the possession detector is made of.
Scenes ==
    { \* ball not detected: no entry at the ball id
      [ball |-> BallAbsent,
       players |-> <<Player(1, ContainsBox), Player(2, FarBox)>>],
      \* ball not detected: an entry with an empty bbox
      [ball |-> BallEmptyBbox,
       players |-> <<Player(1, ContainsBox), Player(2, FarBox)>>],
      \* player 1 wins (contains the ball); player 2 has no bbox
      [ball |-> BallAt(BallBox),
       players |-> <<Player(1, ContainsBox), Player(2, << >>)>>],
      \* player 2 wins (by distance); player 1 is not in the frame
      [ball |-> BallAt(BallBox),
       players |-> <<Player(2, TouchBox)>>],
      \* ball detected, nobody qualifies
      [ball |-> BallAt(BallBox),
       players |-> <<Player(1, Edge50Box), Player(2, FarBox)>>] }

\* The frames of the long videos: the ball is not detected, player 1 wins
\* or player 2 wins.
HolderScenes ==
    { [ball |-> BallAbsent,
       players |-> <<Player(1, ContainsBox), Player(2, FarBox)>>],
      [ball |-> BallAt(BallBox),
       players |-> <<Player(1, ContainsBox), Player(2, << >>)>>],
      [ball |-> BallAt(BallBox),
       players |-> <<Player(2, TouchBox)>>] }

\* the frames a video of the given mode is made of
ScenesOf(m) == IF m = "poss_long" THEN HolderScenes ELSE Scenes

\* list[f] for a 0-based frame index f
At(list, f) == list[f + 1]

\* list[f] is an element (f >= 0); otherwise list[f] raises IndexError
InRange(list, f) == f < Len(list)

-----------------------------------------------------------------------------
(* BallAcqsDetector.detect_ball_possession: one action per loop iteration *)

\* what one frame offers the debounce: the ball is undetected, or it is
\* detected and player P (or nobody, NoId) wins the per-frame selection
Undetected == [detected |-> FALSE, winner |-> NoId]
Won(P)     == [detected |-> TRUE, winner |-> P]

\* ball_tracks[frame_num].get(1, {}) and ball_info.get("bbox", []), with the
\* two "continue" tests: << >> when the frame is skipped
ball_bbox_of(ball_frame) ==
    LET ball_info == Get(ball_frame, BallId, EmptyDict)
    IN  IF DOMAIN ball_info = {} THEN << >>
        ELSE Get(ball_info, "bbox", << >>)

\* mutant: a skipped frame resets the streak
StreakOnSkip_Reset(cnt) == EmptyDict

\* the streak dict after a skipped frame ("continue")
StreakOnSkip(cnt) == cnt

\* mutant: per-player counters that survive a change of candidate
UpdateStreak_PerPlayer(cnt, best_player_id) ==
    IF best_player_id # NoId
    THEN (best_player_id :> (Get(cnt, best_player_id, 0) + 1)) @@ cnt
    ELSE EmptyDict

\* mutant: a frame without candidate does not reset the streak
UpdateStreak_NoReset(cnt, best_player_id) ==
    IF best_player_id # NoId
    THEN (best_player_id :> (Get(cnt, best_player_id, 0) + 1))
    ELSE cnt

\* the streak dict after a frame whose best candidate is best_player_id
UpdateStreak(cnt, best_player_id) ==
    IF best_player_id # NoId
    THEN (best_player_id :> (Get(cnt, best_player_id, 0) + 1))
    ELSE EmptyDict

\* mutant: an off-by-one threshold test
StreakConfirmed_Strict(n) == n > min_frames

\* consecutive_poss_cnt[best_player_id] >= self.min_frames
StreakConfirmed(n) == n >= min_frames

\* One iteration of the loop. The frame is chosen when it is read.
\* player_tracks[frame_num] is read only on a frame whose ball is detected,
\* and raises IndexError when player_tracks is shorter than ball_tracks.
PossessionStep ==
    /\ mode \in {"poss", "poss_long", "misaligned_poss"}
    /\ ~possession_raised
    /\ frame_num < num_frames
    /\ \E scene \in ScenesOf(mode) :
        LET has_players == frame_num < num_player_frames
            changed == /\ frame_num > 0
                       /\ \/ scene.ball # ball_tracks[frame_num]
                          \/ /\ has_players
                             /\ scene.players # player_tracks[frame_num]
            ball_bbox == ball_bbox_of(scene.ball)
            ball_center == get_center_of_bbox(ball_bbox)
            best_player_id ==
                find_best_cndt_for_poss(ball_bbox, ball_center, scene.players)
            cnt == UpdateStreak(consecutive_poss_cnt, best_player_id)
        IN  /\ runs' = IF frame_num = 0 THEN 1
                       ELSE IF changed THEN runs + 1 ELSE runs
            /\ runs' <= MaxRuns
            /\ ball_tracks' = Append(ball_tracks, scene.ball)
            /\ player_tracks' = IF has_players
                                THEN Append(player_tracks, scene.players)
                                ELSE player_tracks
            /\ IF ball_bbox = << >>
               THEN /\ consecutive_poss_cnt' = StreakOnSkip(consecutive_poss_cnt)
                    /\ possession_list' = possession_list
                    /\ candidates' = Append(candidates, Undetected)
                    /\ possession_raised' = FALSE
                    /\ frame_num' = frame_num + 1
               ELSE IF ~has_players
               THEN /\ possession_raised' = TRUE
                    /\ UNCHANGED <<consecutive_poss_cnt, possession_list,
                                   candidates, frame_num>>
               ELSE /\ consecutive_poss_cnt' = cnt
                    /\ possession_list' =
                         IF /\ best_player_id # NoId
                            /\ StreakConfirmed(cnt[best_player_id])
                         THEN [possession_list EXCEPT ![frame_num + 1] = best_player_id]
                         ELSE possession_list
                    /\ candidates' = Append(candidates, Won(best_player_id))
                    /\ possession_raised' = FALSE
                    /\ frame_num' = frame_num + 1
    /\ UNCHANGED <<mode, restVars, num_frames, num_player_frames,
                   cndtVars, passVars,
                   hgVars, mapVars>>

IdlePoss ==
    /\ player_tracks = << >>
    /\ ball_tracks = << >>
    /\ num_frames = 0
    /\ num_player_frames = 0
    /\ possession_raised = FALSE
    /\ frame_num = 0
    /\ possession_list = << >>
    /\ consecutive_poss_cnt = EmptyDict
    /\ runs = 0
    /\ candidates = << >>

IdleCndt ==
    /\ cndt_ball_bbox = << >>
    /\ cndt_players = << >>
    /\ cndt_result = NotCalled

IdlePass ==
    /\ ball_acquisition = << >>
    /\ player_teams = << >>
    /\ passes = NotCalled
    /\ interceptions = NotCalled

IdleHg ==
    /\ source = << >>
    /\ target = << >>
    /\ homography = NotCalled
    /\ points = << >>
    /\ trans_points = NotCalled

IdleMap ==
    /\ keypoints_list = << >>
    /\ map_player_tracks = << >>
    /\ map_player_positions = NotCalled
    /\ homography_calls = << >>

IdleVm ==
    /\ vm_keypoints_list = << >>
    /\ vm_result = NotCalled
    /\ vm_checks = << >>

IdleKin ==
    /\ player_positions = << >>
    /\ kin_num_frames = 0
    /\ kin_fps = 0
    /\ kin_frame_num = 0
    /\ prev_player_positions = EmptyDict
    /\ out_distances = << >>
    /\ kin_runs = 0
    /\ speeds = NotCalled

IdleBt ==
    /\ detections = << >>
    /\ read_from_stub = FALSE
    /\ stub_path = << >>
    /\ dirs = {}
    /\ files = EmptyDict
    /\ object_tracks = NotCalled

IdleTrim ==
    /\ ball_positions = << >>
    /\ trim_input = << >>
    /\ trim_result = NotCalled

IdleRest ==
    /\ IdleVm
    /\ IdleKin
    /\ IdleBt
    /\ IdleTrim

InitPoss ==
    /\ mode = "poss"
    /\ player_tracks = << >>
    /\ ball_tracks = << >>
    /\ num_frames \in VideoLengths
    /\ num_player_frames = num_frames
    /\ possession_raised = FALSE
    /\ frame_num = 0
    /\ possession_list = [i \in 1..num_frames |-> NoId]
    /\ consecutive_poss_cnt = EmptyDict
    /\ runs = 0
    /\ candidates = << >>
    /\ IdleCndt
    /\ IdlePass
    /\ IdleHg
    /\ IdleMap
    /\ IdleRest

\* a video long enough for two confirmed holders with a frame between
LongFrames == 2 * min_frames + 1

\* detect_ball_possession on a long video of few kinds of frames
InitPossLong ==
    /\ mode = "poss_long"
    /\ player_tracks = << >>
    /\ ball_tracks = << >>
    /\ num_frames = LongFrames
    /\ num_player_frames = num_frames
    /\ possession_raised = FALSE
    /\ frame_num = 0
    /\ possession_list = [i \in 1..num_frames |-> NoId]
    /\ consecutive_poss_cnt = EmptyDict
    /\ runs = 0
    /\ candidates = << >>
    /\ IdleCndt
    /\ IdlePass
    /\ IdleHg
    /\ IdleMap
    /\ IdleRest

-----------------------------------------------------------------------------
(* BallAcqsDetector.find_best_cndt_for_poss called on one frame *)

\* the player dicts of one frame: up to MaxPlayers players in iteration
\* order, the i-th of n having id n - i + 1 (so the first is not the smallest)
PlayerFrames ==
    UNION { { [i \in 1..n |-> Player(n - i + 1, boxes[i])] :
                boxes \in [1..n -> PlayerBoxes] } : n \in 0..MaxPlayers }

InitCndt ==
    /\ mode = "cndt"
    /\ cndt_ball_bbox \in {BallBox, FlatBallBox}
    /\ cndt_players \in PlayerFrames
    /\ cndt_result = NotCalled
    /\ IdlePoss
    /\ IdlePass
    /\ IdleHg
    /\ IdleMap
    /\ IdleRest

FindBestCandidate ==
    /\ mode = "cndt"
    /\ cndt_result = NotCalled
    /\ cndt_result' = Returned(find_best_cndt_for_poss(
                          cndt_ball_bbox, get_center_of_bbox(cndt_ball_bbox),
                          cndt_players))
    /\ UNCHANGED <<mode, restVars, cndt_ball_bbox, cndt_players,
                   possVars, passVars,
                   hgVars, mapVars>>

-----------------------------------------------------------------------------
(* PassAndInterceptionDetector *)

\* mutant: the pass test with the comparison of the interception test
PassTag_Differ(prev_team, cur_team) ==
    IF prev_team # cur_team /\ prev_team # NoId THEN prev_team ELSE NoId

\* "if prev_team == cur_team and prev_team != -1: passes[frame_num] =
\* prev_team": the value recorded, NoId when nothing is recorded
PassTag(prev_team, cur_team) ==
    IF prev_team = cur_team /\ prev_team # NoId THEN prev_team ELSE NoId

\* mutant: the interception is tagged with the team that lost the ball
InterceptionTag_Prev(prev_team, cur_team) ==
    IF prev_team # cur_team /\ prev_team # NoId /\ cur_team # NoId
    THEN prev_team ELSE NoId

\* mutant: the teams are not checked to be valid
InterceptionTag_NoValidity(prev_team, cur_team) ==
    IF prev_team # cur_team THEN cur_team ELSE NoId

\* mutant: every change between two valid teams is an interception
InterceptionTag_NoCompare(prev_team, cur_team) ==
    IF prev_team # NoId /\ cur_team # NoId THEN cur_team ELSE NoId

\* "if prev_team != cur_team and prev_team != -1 and cur_team != -1:
\* interceptions[frame_num] = cur_team"
InterceptionTag(prev_team, cur_team) ==
    IF prev_team # cur_team /\ prev_team # NoId /\ cur_team # NoId
    THEN cur_team ELSE NoId

\* mutant: the previous holder's team is looked up in the current frame
PrevTeam_CurrentFrame(teams, prev_frame_num, f, prev_holder) ==
    Get(At(teams, f), prev_holder, NoId)

\* prev_team = player_teams[prev_frame_num].get(prev_holder, -1)
PrevTeam(teams, prev_frame_num, f, prev_holder) ==
    Get(At(teams, prev_frame_num), prev_holder, NoId)

\* the loop of detect_passes from frame_num on, with its local variables:
\* Returned(passes), or Raised("IndexError") when player_teams has no entry
\* at a frame the loop looks up
RECURSIVE PassesLoop(_, _, _, _, _, _)
PassesLoop(acq, teams, f, prev_holder, prev_frame_num, out) ==
    IF f >= Len(acq) THEN Returned(out)
    ELSE
        LET valid_prev == At(acq, f - 1) # NoId
            holder == IF valid_prev THEN At(acq, f - 1) ELSE prev_holder
            frame  == IF valid_prev THEN f - 1 ELSE prev_frame_num
            cur_holder == At(acq, f)
            changed == frame # NoId /\ cur_holder # NoId /\ holder # cur_holder
            prev_team == PrevTeam(teams, frame, f, holder)
            cur_team  == Get(At(teams, f), cur_holder, NoId)
            tag == IF changed THEN PassTag(prev_team, cur_team) ELSE NoId
        IN  IF changed /\ ~(InRange(teams, frame) /\ InRange(teams, f))
            THEN Raised("IndexError")
            ELSE PassesLoop(acq, teams, f + 1, holder, frame,
                            IF tag # NoId THEN [out EXCEPT ![f + 1] = tag]
                            ELSE out)

\* mutant: one entry per compared frame, range(1, len(ball_acquisition))
detect_passes_PerComparison(acq, teams) ==
    PassesLoop(acq, teams, 1, NoId, NoId,
               [i \in 1..(Len(acq) - 1) |-> NoId])

detect_passes(acq, teams) ==
    PassesLoop(acq, teams, 1, NoId, NoId, [i \in 1..Len(acq) |-> NoId])

\* the loop of detect_interception from frame_num on
RECURSIVE InterceptionLoop(_, _, _, _, _, _)
InterceptionLoop(acq, teams, f, prev_holder, prev_frame_num, out) ==
    IF f >= Len(acq) THEN Returned(out)
    ELSE
        LET valid_prev == At(acq, f - 1) # NoId
            holder == IF valid_prev THEN At(acq, f - 1) ELSE prev_holder
            frame  == IF valid_prev THEN f - 1 ELSE prev_frame_num
            cur_holder == At(acq, f)
            changed == frame # NoId /\ cur_holder # NoId /\ holder # cur_holder
            prev_team == PrevTeam(teams, frame, f, holder)
            cur_team  == Get(At(teams, f), cur_holder, NoId)
            tag == IF changed THEN InterceptionTag(prev_team, cur_team)
                   ELSE NoId
        IN  IF changed /\ ~(InRange(teams, frame) /\ InRange(teams, f))
            THEN Raised("IndexError")
            ELSE InterceptionLoop(acq, teams, f + 1, holder, frame,
                                  IF tag # NoId THEN [out EXCEPT ![f + 1] = tag]
                                  ELSE out)

detect_interception(acq, teams) ==
    InterceptionLoop(acq, teams, 1, NoId, NoId, [i \in 1..Len(acq) |-> NoId])

\* the holders of a possession series
Holders == {NoId, 1, 2}

\* the team assignments of one frame: both players in team 1; one in each
\* team; player 1 unassigned and player 2 in team 1
TeamMaps == { (1 :> 1) @@ (2 :> 1),
              (1 :> 1) @@ (2 :> 2),
              (2 :> 1) }

InitPass ==
    /\ mode = "pass"
    /\ \E n \in 0..MaxPassFrames :
          /\ ball_acquisition \in [1..n -> Holders]
          /\ player_teams \in [1..n -> TeamMaps]
    /\ passes = NotCalled
    /\ interceptions = NotCalled
    /\ IdlePoss
    /\ IdleCndt
    /\ IdleHg
    /\ IdleMap
    /\ IdleRest

\* main: passes = pass_detector.detect_passes(ball_possession, player_teams)
DetectPasses ==
    /\ mode \in {"pass", "misaligned_pass"}
    /\ passes = NotCalled
    /\ passes' = detect_passes(ball_acquisition, player_teams)
    /\ UNCHANGED <<mode, restVars, ball_acquisition, player_teams,
                   interceptions,
                   possVars, cndtVars, hgVars, mapVars>>

\* main: interceptions = pass_detector.detect_interception(ball_possession,
\* player_teams)
DetectInterception ==
    /\ mode \in {"pass", "misaligned_pass"}
    /\ passes # NotCalled
    /\ interceptions = NotCalled
    /\ interceptions' = detect_interception(ball_acquisition, player_teams)
    /\ UNCHANGED <<mode, restVars, ball_acquisition, player_teams, passes,
                   possVars, cndtVars, hgVars, mapVars>>

-----------------------------------------------------------------------------
(* numpy arrays: a shape and the elements (the rows, for a 2-D array) *)

Array(shape, data) == [shape |-> shape, data |-> data]

ndim(a) == Len(a.shape)

RECURSIVE Product(_)
Product(dims) == IF dims = << >> THEN 1 ELSE Head(dims) * Product(Tail(dims))

\* a.size: the number of elements
size(a) == Product(a.shape)

-----------------------------------------------------------------------------
(* Homography (court/homography.py) *)

\* the matrix cv2.findHomography fits to the correspondences: it is kept as
\* the correspondences that determine it
Model(src, dst) == [source |-> src.data, target |-> dst.data]

\* the least number of correspondences cv2.findHomography accepts
MinCorrespondences == 4

\* self.model, _ = cv2.findHomography(source, target): the library call
\* raises cv2.error for fewer than 4 point pairs; for 4 or more it returns a
\* matrix, or None when it finds no transform (solvable = FALSE)
findHomography(src, dst, solvable) ==
    IF src.shape[1] < MinCorrespondences THEN [kind |-> "error", model |-> << >>]
    ELSE IF ~solvable THEN [kind |-> "none", model |-> << >>]
    ELSE [kind |-> "model", model |-> Model(src, dst)]

\* mutant: the number of columns is not checked
ShapeIsNx2_AnyColumns(a) == ndim(a) = 2

\* not (a.ndim != 2 or a.shape[1] != 2)
ShapeIsNx2(a) == ndim(a) = 2 /\ a.shape[2] = 2

\* Homography.__init__: Returned(instance), or the exception raised
Homography(src, dst, solvable) ==
    IF src.shape # dst.shape THEN Raised("ValueError")
    ELSE IF ~ShapeIsNx2(src) THEN Raised("ValueError")
    ELSE LET found == findHomography(src, dst, solvable)
         IN  IF found.kind = "error" THEN Raised("cv2.error")
             ELSE IF found.kind = "none" THEN Raised("ValueError")
             ELSE Returned([model |-> found.model])

\* cv2.perspectiveTransform on one point: the image of the point under the
\* matrix
perspectiveTransform(model, point) == [model |-> model, image_of |-> point]

\* Homography.transform_points: Returned(array), or the exception raised
transform_points(self, pts) ==
    IF size(pts) = 0 THEN Returned(pts)
    ELSE IF ~ShapeIsNx2(pts) THEN Raised("ValueError")
    ELSE Returned(Array(<<pts.shape[1], 2>>,
                        [k \in 1..pts.shape[1] |->
                            perspectiveTransform(self.model, pts.data[k])]))

\* the arrays given to the constructor and to transform_points: n x 2 and
\* n x 3 arrays of n = 0..MaxPoints rows, and 1-D arrays of 0 and of 4
\* elements
MaxPoints == 5

ArrayNx2(n) == Array(<<n, 2>>, [k \in 1..n |-> <<10 * k, 7 * k + 1>>])
ArrayNx3(n) == Array(<<n, 3>>, [k \in 1..n |-> <<10 * k, 7 * k + 1, 1>>])
Array1D(n)  == Array(<<n>>, [k \in 1..n |-> 10 * k])

Arrays ==
    {ArrayNx2(n) : n \in 0..MaxPoints}
        \cup {ArrayNx3(n) : n \in 0..MaxPoints}
        \cup {Array1D(0), Array1D(4)}

\* the map-space points paired with the rows of ArrayNx2(n)
TargetNx2(n) == Array(<<n, 2>>, [k \in 1..n |-> <<3 * k, k * k>>])

InitHomography ==
    /\ mode = "homography"
    /\ source \in Arrays
    /\ target \in Arrays \cup {TargetNx2(n) : n \in 1..MaxPoints}
    /\ homography = NotCalled
    /\ points \in Arrays
    /\ trans_points = NotCalled
    /\ IdlePoss
    /\ IdleCndt
    /\ IdlePass
    /\ IdleMap
    /\ IdleRest

\* homography = Homography(source, target)
ConstructHomography ==
    /\ mode = "homography"
    /\ homography = NotCalled
    /\ \E solvable \in BOOLEAN :
          homography' = Homography(source, target, solvable)
    /\ UNCHANGED <<mode, restVars, source, target, points, trans_points,
                   possVars, cndtVars, passVars, mapVars>>

\* homography.transform_points(points) on the instance built
TransformPoints ==
    /\ mode = "homography"
    /\ IsReturned(homography)
    /\ trans_points = NotCalled
    /\ trans_points' = transform_points(ValueOf(homography), points)
    /\ UNCHANGED <<mode, restVars, source, target, homography, points,
                   possVars, cndtVars, passVars, mapVars>>

-----------------------------------------------------------------------------
(* CourtMap (court/court_map.py) *)

\* pixel size of the court image
width == 300
height == 161
\* the court in centimetres: actual_width_in_meters = 28.65,
\* actual_height_in_meters = 15.24
actual_width_cm == 2865
actual_height_cm == 1524

\* int((m / self.actual_width_in_meters) * self.width), m given in cm
MapX(cm) == (cm * width) \div actual_width_cm
\* int((m / self.actual_height_in_meters) * self.height), m given in cm
MapY(cm) == (cm * height) \div actual_height_cm

\* self.keypoints: the 18 reference keypoints of the court map
keypoints ==
    << <<0, 0>>, <<0, MapY(91)>>, <<0, MapY(518)>>, <<0, MapY(1000)>>,
       <<0, MapY(1410)>>, <<0, height>>,
       <<MapX(579), MapY(518)>>, <<MapX(579), MapY(1000)>>,
       <<IntHalf(width), height>>, <<IntHalf(width), 0>>,
       <<MapX(actual_width_cm - 579), MapY(518)>>,
       <<MapX(actual_width_cm - 579), MapY(1000)>>,
       <<width, height>>, <<width, MapY(1410)>>, <<width, MapY(1000)>>,
       <<width, MapY(518)>>, <<width, MapY(91)>>, <<width, 0>> >>

\* kp[0] > 0 and kp[1] > 0
IsDetected(kp) == kp[1] > 0 /\ kp[2] > 0

\* valid_indices = [idx for idx, kp in enumerate(frame_keypoints) if ...]
valid_indices(frame_keypoints) ==
    SelectSeq([i \in 1..Len(frame_keypoints) |-> i - 1],
              LAMBDA idx : IsDetected(At(frame_keypoints, idx)))

\* "if len(valid_indices) < 4"
MinValidKeypoints == 4

\* source_points = np.array([frame_keypoints[i] for i in valid_indices])
source_points(frame_keypoints, valid) ==
    Array(<<Len(valid), 2>>,
          [k \in 1..Len(valid) |-> At(frame_keypoints, valid[k])])

\* mutant: the map keypoints are taken by position in the filtered list
target_points_ByPosition(valid) ==
    Array(<<Len(valid), 2>>, [k \in 1..Len(valid) |-> At(keypoints, k - 1)])

\* target_points = np.array([self.keypoints[i] for i in valid_indices])
target_points(valid) ==
    Array(<<Len(valid), 2>>, [k \in 1..Len(valid) |-> At(keypoints, valid[k])])

\* "x1, y1, x2, y2 = bbox" succeeds; otherwise it raises ValueError
Unpacks4(bbox) == Len(bbox) = 4

\* utils/bbox_utils.py: get_foot_pos, for a bbox that unpacks
get_foot_pos(bbox) == <<IntHalf(bbox[1] + bbox[3]), bbox[4]>>

\* the loop over frame_tracks.items(): Returned(frame_map_positions), or
\* Raised("ValueError") from get_foot_pos, which is called outside the try
RECURSIVE PlayersLoop(_, _, _, _)
PlayersLoop(hg, frame_tracks, i, frame_map_positions) ==
    IF i > Len(frame_tracks) THEN Returned(frame_map_positions)
    ELSE
        LET player_id == frame_tracks[i].id
            bbox == frame_tracks[i].bbox
            player_pos == Array(<<1, 2>>, <<get_foot_pos(bbox)>>)
            map_player_pos == transform_points(hg, player_pos)
        IN  IF ~Unpacks4(bbox) THEN Raised("ValueError")
            ELSE PlayersLoop(hg, frame_tracks, i + 1,
                    IF IsRaised(map_player_pos) THEN frame_map_positions
                    ELSE (player_id :> ValueOf(map_player_pos).data[1])
                             @@ frame_map_positions)

\* mutant: "continue" without appending the empty mapping
FrameWithoutKeypoints_Dropped(out) == out

\* fewer than 4 valid keypoints:
\* map_player_positions.append(frame_map_positions); continue
FrameWithoutKeypoints(out) == Append(out, EmptyDict)

\* the loop over zip(keypoints_list, player_tracks) from frame f on;
\* solvable[f + 1] tells whether cv2.findHomography finds a transform for
\* frame f. The result is the outcome of the call and the arguments of the
\* Homography objects built.
RECURSIVE FramesLoop(_, _, _, _, _, _)
FramesLoop(kps, tracks, solvable, f, out, calls) ==
    IF f >= Min2(Len(kps), Len(tracks))
    THEN [outcome |-> Returned(out), calls |-> calls]
    ELSE
        LET frame_keypoints == At(kps, f)
            valid == valid_indices(frame_keypoints)
            src == source_points(frame_keypoints, valid)
            dst == target_points(valid)
            hg == Homography(src, dst, solvable[f + 1])
            built == Append(calls, [frame |-> f, source_points |-> src,
                                    target_points |-> dst])
            positions == PlayersLoop(ValueOf(hg), At(tracks, f), 1, EmptyDict)
        IN  IF Len(valid) < MinValidKeypoints
            THEN FramesLoop(kps, tracks, solvable, f + 1,
                            FrameWithoutKeypoints(out), calls)
            ELSE IF IsRaised(hg)
            THEN FramesLoop(kps, tracks, solvable, f + 1,
                            Append(out, EmptyDict), built)
            ELSE IF IsRaised(positions)
            THEN [outcome |-> positions, calls |-> built]
            ELSE FramesLoop(kps, tracks, solvable, f + 1,
                            Append(out, ValueOf(positions)), built)

integrate_players_into_map(kps, tracks, solvable) ==
    FramesLoop(kps, tracks, solvable, 0, << >>, << >>)

\* where keypoint i is detected in a frame
DetectedAt(i) == <<100 + 10 * i, 200 + i>>

\* the 18 keypoints of a frame: those of D are detected, those of HX have
\* only a positive x, those of HY only a positive y, the others are (0, 0)
KeypointFrame(D, HX, HY) ==
    [i \in 1..Len(keypoints) |->
        IF (i - 1) \in D THEN DetectedAt(i - 1)
        ELSE IF (i - 1) \in HX THEN <<5, 0>>
        ELSE IF (i - 1) \in HY THEN <<0, 5>>
        ELSE <<0, 0>>]

KeypointFrames ==
    { KeypointFrame({}, {}, {}),
      KeypointFrame({0, 5, 17}, {}, {}),
      KeypointFrame({2, 3, 8}, {12}, {13}),
      KeypointFrame({1, 6, 9, 17}, {}, {}),
      KeypointFrame({0, 4, 7, 11, 16}, {2}, {}) }

\* a bbox of three numbers
ShortBox == <<90, 60, 130>>

\* the player dicts of a frame
MapPlayerFrames ==
    { << >>,
      <<Player(1, ContainsBox)>>,
      <<Player(2, FarBox), Player(1, ContainsBox)>>,
      <<Player(1, << >>), Player(2, FarBox)>>,
      <<Player(1, ContainsBox), Player(2, << >>)>>,
      <<Player(1, ShortBox)>> }

\* most frames given to integrate_players_into_map
MaxMapFrames == 2

InitMap ==
    /\ mode = "map"
    /\ \E n \in 0..MaxMapFrames :
          /\ keypoints_list \in [1..n -> KeypointFrames]
          /\ map_player_tracks \in [1..n -> MapPlayerFrames]
    /\ map_player_positions = NotCalled
    /\ homography_calls = << >>
    /\ IdlePoss
    /\ IdleCndt
    /\ IdlePass
    /\ IdleHg
    /\ IdleRest

\* main: map_player_positions =
\*           court_map.integrate_players_into_map(court_keypoints, player_tracks)
IntegratePlayers ==
    /\ mode \in {"map", "misaligned_map"}
    /\ map_player_positions = NotCalled
    /\ \E solvable \in [1..Len(keypoints_list) -> BOOLEAN] :
          LET r == integrate_players_into_map(keypoints_list,
                                              map_player_tracks, solvable)
          IN  /\ map_player_positions' = r.outcome
              /\ homography_calls' = r.calls
    /\ UNCHANGED <<mode, restVars, keypoints_list, map_player_tracks,
                   possVars, cndtVars, passVars, hgVars>>

-----------------------------------------------------------------------------
(* Per-frame series of different lengths *)

\* longest series of a pair of series of different lengths
MaxMisaligned == 2

\* the pairs of different lengths
MisalignedLengths ==
    {ab \in (0..MaxMisaligned) \X (0..MaxMisaligned) : ab[1] # ab[2]}

\* detect_ball_possession(player_tracks, ball_tracks),
\* len(player_tracks) # len(ball_tracks)
InitPossMisaligned ==
    /\ mode = "misaligned_poss"
    /\ player_tracks = << >>
    /\ ball_tracks = << >>
    /\ \E ab \in MisalignedLengths :
          /\ num_frames = ab[1]
          /\ num_player_frames = ab[2]
    /\ possession_raised = FALSE
    /\ frame_num = 0
    /\ possession_list = [i \in 1..num_frames |-> NoId]
    /\ consecutive_poss_cnt = EmptyDict
    /\ runs = 0
    /\ candidates = << >>
    /\ IdleCndt
    /\ IdlePass
    /\ IdleHg
    /\ IdleMap
    /\ IdleRest

\* detect_passes / detect_interception(ball_acquisition, player_teams),
\* len(ball_acquisition) # len(player_teams)
InitPassMisaligned ==
    /\ mode = "misaligned_pass"
    /\ \E ab \in MisalignedLengths :
          /\ ball_acquisition \in [1..ab[1] -> Holders]
          /\ player_teams \in [1..ab[2] -> TeamMaps]
    /\ passes = NotCalled
    /\ interceptions = NotCalled
    /\ IdlePoss
    /\ IdleCndt
    /\ IdleHg
    /\ IdleMap
    /\ IdleRest

\* integrate_players_into_map(keypoints_list, player_tracks),
\* len(keypoints_list) # len(player_tracks)
InitMapMisaligned ==
    /\ mode = "misaligned_map"
    /\ \E ab \in MisalignedLengths :
          /\ keypoints_list \in [1..ab[1] -> KeypointFrames]
          /\ map_player_tracks \in [1..ab[2] -> MapPlayerFrames]
    /\ map_player_positions = NotCalled
    /\ homography_calls = << >>
    /\ IdlePoss
    /\ IdleCndt
    /\ IdlePass
    /\ IdleHg
    /\ IdleRest

-----------------------------------------------------------------------------
(* CourtMap.validate_map (court/court_map.py) *)

\* a / b > c / d for a, c >= 0 and b, d > 0, compared by continued fractions:
\* the cross products a * d and b * c need not fit a machine integer
RECURSIVE FracGT(_, _, _, _)
FracGT(a, b, c, d) ==
    LET qa == a \div b
        qc == c \div d
        ra == a % b
        rc == c % d
    IN  IF qa # qc THEN qa > qc
        ELSE IF ra = 0 THEN FALSE
        ELSE IF rc = 0 THEN TRUE
        ELSE FracGT(d, rc, b, ra)

\* "if len(detected_indices) < 3: continue"
MinDetectedKeypoints == 3

\* "if len(other_indices) < 2: continue"
MinOtherKeypoints == 2

\* "if err > 0.8": the threshold 0.8 as the fraction 4 / 5
ErrThresholdNum == 4
ErrThresholdDen == 5

\* detected_indices = [i for i, kp in enumerate(frame_kps)
\*                     if kp[0] > 0 and kp[1] > 0]
detected_indices(frame_kps) ==
    SelectSeq([i \in 1..Len(frame_kps) |-> i - 1],
              LAMBDA i : At(frame_kps, i)[1] > 0 /\ At(frame_kps, i)[2] > 0)

\* mutant: the keypoints invalidated earlier stay references
other_indices_KeepInvalid(detected, i1, invalid_keypoints) ==
    SelectSeq(detected, LAMBDA i : i # i1)

\* other_indices = [i for i in detected_indices
\*                  if i != i1 and i not in invalid_keypoints]
other_indices(detected, i1, invalid_keypoints) ==
    SelectSeq(detected,
              LAMBDA i : /\ i # i1
                         /\ \A k \in DOMAIN invalid_keypoints :
                               invalid_keypoints[k] # i)

\* mutant: the error is signed, only a too large frame ratio is rejected
ErrTooLarge_Signed(f12, f13, m12, m13) ==
    \/ f13 = 0
    \/ FracGT(f12 * m13, f13 * m12,
              (ErrThresholdDen + ErrThresholdNum)
                  * (ErrThresholdDen + ErrThresholdNum),
              ErrThresholdDen * ErrThresholdDen)

\* ratio_frame = frame_dist_p1p2 / frame_dist_p1p3 if frame_dist_p1p3 > 0
\*               else math.inf
\* ratio_map = map_dist_p1p2 / map_dist_p1p3
\* err = abs((ratio_frame - ratio_map) / ratio_map);  "if err > 0.8"
\* The arguments are the SQUARES of the four distances, m12 > 0 and m13 > 0.
\* err > 0.8 iff ratio_frame > 1.8 * ratio_map or ratio_frame < 0.2 *
\* ratio_map, which is compared on the squares of the ratios; an infinite
\* ratio_frame gives an infinite err.
ErrTooLarge(f12, f13, m12, m13) ==
    \/ f13 = 0
    \/ FracGT(f12 * m13, f13 * m12,
              (ErrThresholdDen + ErrThresholdNum)
                  * (ErrThresholdDen + ErrThresholdNum),
              ErrThresholdDen * ErrThresholdDen)
    \/ FracGT((ErrThresholdDen - ErrThresholdNum)
                  * (ErrThresholdDen - ErrThresholdNum),
              ErrThresholdDen * ErrThresholdDen,
              f12 * m13, f13 * m12)

\* "for i1 in detected_indices", from the k-th detected index on. The result
\* is invalid_keypoints at the end of the loop and the comparisons made:
\* i1, its references i2 and i3 and whether i1 was invalidated.
RECURSIVE KeypointsLoop(_, _, _, _, _)
KeypointsLoop(frame_kps, detected, k, invalid_keypoints, checks) ==
    IF k > Len(detected)
    THEN [invalid_keypoints |-> invalid_keypoints, checks |-> checks]
    ELSE
        LET i1 == detected[k]
            others == other_indices(detected, i1, invalid_keypoints)
            i2 == others[1]
            i3 == others[2]
            frame_dist_p1p2 == DistSq(At(frame_kps, i1), At(frame_kps, i2))
            frame_dist_p1p3 == DistSq(At(frame_kps, i1), At(frame_kps, i3))
            map_dist_p1p2 == DistSq(At(keypoints, i1), At(keypoints, i2))
            map_dist_p1p3 == DistSq(At(keypoints, i1), At(keypoints, i3))
            invalid ==
                /\ map_dist_p1p2 > 0
                /\ map_dist_p1p3 > 0
                /\ ErrTooLarge(frame_dist_p1p2, frame_dist_p1p3,
                               map_dist_p1p2, map_dist_p1p3)
        IN  IF At(frame_kps, i1) = <<0, 0>>
            THEN KeypointsLoop(frame_kps, detected, k + 1,
                               invalid_keypoints, checks)
            ELSE IF Len(others) < MinOtherKeypoints
            THEN KeypointsLoop(frame_kps, detected, k + 1,
                               invalid_keypoints, checks)
            ELSE KeypointsLoop(frame_kps, detected, k + 1,
                    IF invalid THEN Append(invalid_keypoints, i1)
                    ELSE invalid_keypoints,
                    Append(checks, [i1 |-> i1, i2 |-> i2, i3 |-> i3,
                                    invalid |-> invalid]))

\* one iteration of "for frame_num, frame_kps in enumerate(keypoints_list)":
\* the keypoints of the frame in the copy that is returned, and the
\* comparisons made
ValidateFrame(frame_kps) ==
    LET detected == detected_indices(frame_kps)
        r == KeypointsLoop(frame_kps, detected, 1, << >>, << >>)
    IN  IF Len(detected) < MinDetectedKeypoints
        THEN [xy |-> frame_kps, checks |-> << >>]
        ELSE [xy |-> [i \in 1..Len(frame_kps) |->
                        IF \E k \in DOMAIN r.invalid_keypoints :
                               r.invalid_keypoints[k] = i - 1
                        THEN <<0, 0>>
                        ELSE frame_kps[i]],
              checks |-> r.checks]

\* validate_map(keypoints_list): the deep copy with the invalid keypoints
\* zeroed
validate_map(kps) == [f \in 1..Len(kps) |-> ValidateFrame(kps[f]).xy]

\* the keypoints of the pool that a frame may show
PoolSize == 4

\* indices of keypoints that the frames may show
KeypointPool == <<1, 6, 9, 13, 17, 3>>

\* where keypoint i is seen when the camera shows the court map scaled by
\* 1/8 and moved by (2, 2)
TruePos(i) == <<At(keypoints, i)[1] \div 8 + 2, At(keypoints, i)[2] \div 8 + 2>>

\* a place where no keypoint is: two keypoints detected there coincide
StackPos == <<40, 24>>

\* a keypoint of the pool is undetected, detected where it is, detected
\* where its mirror image 17 - i is, or detected at StackPos; keypoint 0 is
\* half detected and the others are undetected
ValidateFrame_Input(c) ==
    [i \in 1..Len(keypoints) |->
        IF \E k \in 1..PoolSize : KeypointPool[k] = i - 1
        THEN LET k == CHOOSE k \in 1..PoolSize : KeypointPool[k] = i - 1
             IN  CASE c[k] = "none" -> <<0, 0>>
                   [] c[k] = "true" -> TruePos(i - 1)
                   [] c[k] = "mirror" -> TruePos(Len(keypoints) - i)
                   [] c[k] = "stack" -> StackPos
        ELSE IF i = 1 THEN <<5, 0>>
        ELSE <<0, 0>>]

ValidateFrames ==
    { ValidateFrame_Input(c) :
        c \in [1..PoolSize -> {"none", "true", "mirror", "stack"}] }

\* the frames that may follow the first one
SecondFrames ==
    { ValidateFrame_Input([k \in 1..PoolSize |-> "true"]),
      ValidateFrame_Input([k \in 1..PoolSize |->
                              IF k = 1 THEN "stack" ELSE "true"]),
      ValidateFrame_Input([k \in 1..PoolSize |->
                              IF k <= 2 THEN "stack" ELSE "none"]) }

InitValidate ==
    /\ mode = "validate"
    /\ vm_keypoints_list \in
          {<< >>} \cup { <<a>> : a \in ValidateFrames }
                  \cup { <<a, b>> : a \in ValidateFrames, b \in SecondFrames }
    /\ vm_result = NotCalled
    /\ vm_checks = << >>
    /\ IdlePoss
    /\ IdleCndt
    /\ IdlePass
    /\ IdleHg
    /\ IdleMap
    /\ IdleKin
    /\ IdleBt
    /\ IdleTrim

\* main: court_keypoints = court_map.validate_map(court_keypoints)
ValidateMap ==
    /\ mode = "validate"
    /\ vm_result = NotCalled
    /\ vm_result' = Returned(validate_map(vm_keypoints_list))
    /\ vm_checks' = [f \in 1..Len(vm_keypoints_list) |->
                        ValidateFrame(vm_keypoints_list[f]).checks]
    /\ UNCHANGED <<mode, vm_keypoints_list, possVars, cndtVars, passVars,
                   hgVars, mapVars, kinVars, btVars, trimVars>>

-----------------------------------------------------------------------------
(* SpeedAndDistCalc (speed_and_distance/speed_and_dist_calc.py) *)

\* SCALING_FACTOR = 0.4 as the fraction 2 / 5
ScalingNum == 2
ScalingDen == 5

\* WINDOW_SIZE = 5
WINDOW_SIZE == 5

\* the window of calc_speed has WINDOW_SIZE * 3 frames
WindowFactor == 3

\* "cur_frame = None"
NoFrame == -1

\* Distances are exact integers in the unit of 1 / UnitsPerMetre metres.
UnitsPerMetre == 100 * width * height * ScalingDen

\* self.m_per_px_x = width_in_m / width_in_px, in 1 / (100 * width * height)
\* metres; main builds the calculator from the sizes of the court map
m_per_px_x == actual_width_cm * height

\* self.m_per_px_y = height_in_m / height_in_px, in the same unit
m_per_px_y == actual_height_cm * width

Abs(a) == IF a >= 0 THEN a ELSE -a

\* the largest r in lo..hi with r * r <= n (lo * lo <= n < (hi + 1)^2)
RECURSIVE IsqrtIn(_, _, _)
IsqrtIn(n, lo, hi) ==
    IF lo >= hi THEN lo
    ELSE LET mid == (lo + hi + 1) \div 2
         IN  IF mid * mid <= n THEN IsqrtIn(n, mid, hi)
             ELSE IsqrtIn(n, lo, mid - 1)

\* the precision of the square root of a sum of two non-zero squares
HypotStep == 1000

\* math.dist on a displacement (a, b): exact when the displacement is along
\* one axis, rounded down to a multiple of HypotStep otherwise
Hypot(a, b) ==
    IF b = 0 THEN Abs(a)
    ELSE IF a = 0 THEN Abs(b)
    ELSE LET sa == Abs(a) \div HypotStep
             sb == Abs(b) \div HypotStep
         IN  IsqrtIn(sa * sa + sb * sb, 0, sa + sb) * HypotStep

\* mutant: the previous y is converted with the factor of x
calc_m_dist_MixedScale(prev_pixel_pos, cur_pixel_pos) ==
    Hypot(cur_pixel_pos[1] * m_per_px_x - prev_pixel_pos[1] * m_per_px_x,
          cur_pixel_pos[2] * m_per_px_y - prev_pixel_pos[2] * m_per_px_x)
        * ScalingNum

\* calc_m_dist: math.dist of the positions in metres, times SCALING_FACTOR
calc_m_dist(prev_pixel_pos, cur_pixel_pos) ==
    LET prev_m_x == prev_pixel_pos[1] * m_per_px_x
        prev_m_y == prev_pixel_pos[2] * m_per_px_y
        cur_m_x == cur_pixel_pos[1] * m_per_px_x
        cur_m_y == cur_pixel_pos[2] * m_per_px_y
    IN  Hypot(cur_m_x - prev_m_x, cur_m_y - prev_m_y) * ScalingNum

\* mutant: a player who is not in the frame is forgotten
SeenPositions_Forget(prev, map_player_pos_frame) == map_player_pos_frame

\* prev_player_positions after the loop over the players of a frame:
\* prev_player_positions[player_id] = cur_player_pos for each of them
SeenPositions(prev, map_player_pos_frame) == map_player_pos_frame @@ prev

\* out_distances[frame_num] after the loop over the players of a frame
FrameDistances(prev, map_player_pos_frame) ==
    [player_id \in DOMAIN map_player_pos_frame \cap DOMAIN prev |->
        calc_m_dist(prev[player_id], map_player_pos_frame[player_id])]

\* mutant: the window is long enough with WINDOW_SIZE steps
EnoughSamples_Inclusive(present_frames) == present_frames >= WINDOW_SIZE

\* "if (present_frames > WINDOW_SIZE)"
EnoughSamples(present_frames) == present_frames > WINDOW_SIZE

\* a speed in units per second, as an exact fraction
Speed(num, den) == [num |-> num, den |-> den]

\* the literal 0.0
ZeroSpeed == Speed(0, 1)

\* the body of "if (player_id in distances[i])"
WindowEntry(distances, player_id, i, acc) ==
    IF acc.cur_frame # NoFrame
    THEN [total_dist |-> acc.total_dist + At(distances, i)[player_id],
          present_frames |-> acc.present_frames + 1,
          cur_frame |-> i]
    ELSE [acc EXCEPT !.cur_frame = i]

\* "for i in range(start_frame, frame_num + 1)", from i on
RECURSIVE WindowLoop(_, _, _, _, _)
WindowLoop(distances, player_id, i, last, acc) ==
    IF i > last THEN acc
    ELSE WindowLoop(distances, player_id, i + 1, last,
            IF player_id \in DOMAIN At(distances, i)
            THEN WindowEntry(distances, player_id, i, acc)
            ELSE acc)

\* start_frame = max(0, frame_num - (WINDOW_SIZE * 3) + 1)
start_frame(f) == Max2(0, f - (WINDOW_SIZE * WindowFactor) + 1)

\* speeds[frame_num][player_id]
PlayerSpeed(distances, f, player_id, fps) ==
    LET w == WindowLoop(distances, player_id, start_frame(f), f,
                        [total_dist |-> 0, present_frames |-> 0,
                         cur_frame |-> NoFrame])
    IN  IF EnoughSamples(w.present_frames)
        THEN IF fps > 0    \* time_in_s = present_frames / fps > 0
             THEN Speed(w.total_dist * fps, w.present_frames)
             ELSE ZeroSpeed
        ELSE ZeroSpeed

\* calc_speed(distances, fps)
calc_speed(distances, fps) ==
    [i \in 1..Len(distances) |->
        [player_id \in DOMAIN distances[i] |->
            PlayerSpeed(distances, i - 1, player_id, fps)]]

\* most frames given to calc_dist
MaxKinFrames == 17

\* most maximal segments in which player 1 keeps its state
MaxKinRuns == 3

KinLengths == {0, 1, MaxKinFrames}

\* the frame rates
FrameRates == {25, 30}

\* where player 1 may be: PosB is two pixels beside PosA
PosA == <<10, 20>>
PosB == <<12, 20>>

\* where player 2 stands
PosStill == <<50, 30>>

Unmapped == << >>

\* the states of player 1 in a frame
KinScenes == {Unmapped, PosA, PosB}

\* map_player_positions[f]: player 1 as the scene says; player 2 stands
\* still and is unmapped in every fourth frame
KinFrame(f, scene) ==
    (IF scene = Unmapped THEN EmptyDict ELSE 1 :> scene)
        @@ (IF f % 4 = 3 THEN EmptyDict ELSE 2 :> PosStill)

InitKin ==
    /\ mode = "kin"
    /\ player_positions = << >>
    /\ kin_num_frames \in KinLengths
    /\ kin_fps \in FrameRates
    /\ kin_frame_num = 0
    /\ prev_player_positions = EmptyDict
    /\ out_distances = << >>
    /\ kin_runs = 0
    /\ speeds = NotCalled
    /\ IdlePoss
    /\ IdleCndt
    /\ IdlePass
    /\ IdleHg
    /\ IdleMap
    /\ IdleVm
    /\ IdleBt
    /\ IdleTrim

\* one iteration of "for frame_num, map_player_pos_frame in
\* enumerate(map_player_positions)" of calc_dist
CalcDistStep ==
    /\ mode = "kin"
    /\ kin_frame_num < kin_num_frames
    /\ \E scene \in KinScenes :
          LET map_player_pos_frame == KinFrame(kin_frame_num, scene)
              last == IF kin_frame_num = 0 THEN Unmapped
                      ELSE Get(At(player_positions, kin_frame_num - 1), 1,
                               Unmapped)
              changed == kin_frame_num = 0 \/ scene # last
          IN  /\ kin_runs' = IF changed THEN kin_runs + 1 ELSE kin_runs
              /\ kin_runs' <= MaxKinRuns
              /\ player_positions' =
                    Append(player_positions, map_player_pos_frame)
              /\ out_distances' =
                    Append(out_distances,
                           FrameDistances(prev_player_positions,
                                          map_player_pos_frame))
              /\ prev_player_positions' =
                    SeenPositions(prev_player_positions, map_player_pos_frame)
    /\ kin_frame_num' = kin_frame_num + 1
    /\ UNCHANGED <<mode, kin_num_frames, kin_fps, speeds, possVars, cndtVars,
                   passVars, hgVars, mapVars, vmVars, btVars, trimVars>>

\* main: speed_calc.calc_speed(player_dist_per_frame, fps=30), after
\* calc_dist has returned
CalcSpeed ==
    /\ mode = "kin"
    /\ kin_frame_num = kin_num_frames
    /\ speeds = NotCalled
    /\ speeds' = Returned(calc_speed(out_distances, kin_fps))
    /\ UNCHANGED <<mode, player_positions, kin_num_frames, kin_fps,
                   kin_frame_num, prev_player_positions, out_distances,
                   kin_runs, possVars, cndtVars, passVars, hgVars, mapVars,
                   vmVars, btVars, trimVars>>

-----------------------------------------------------------------------------
(* utils/stub_utils.py and BallTracker.get_object_tracks
   (trackers/ball_tracker.py) *)

\* Python's None and a value that is not None: an optional value is a
\* sequence of length 0 or 1
None == << >>
Some(value) == <<value>>

\* a path string, by os.path.dirname and os.path.basename
Path(dirname, basename) == [dirname |-> dirname, basename |-> basename]

\* save_stub(stub_path, obj): the outcome of the call and the file system
\* after it. os.path.dirname(stub_path) is evaluated first and raises
\* TypeError when stub_path is None.
save_stub(path, obj, fs_dirs, fs_files) ==
    IF path = None
    THEN [outcome |-> Raised("TypeError"),
          dirs |-> fs_dirs, files |-> fs_files]
    ELSE LET output_dir == path[1].dirname
         IN  [outcome |-> Returned(None),
              dirs |-> IF output_dir # "" /\ output_dir \notin fs_dirs
                       THEN fs_dirs \cup {output_dir}
                       ELSE fs_dirs,
              files |-> (path[1] :> obj) @@ fs_files]

\* read_stub(read_from_stub, stub_path): the object of the file, or None
read_stub(read, path, fs_files) ==
    IF read /\ path # None /\ path[1] \in DOMAIN fs_files
    THEN Some(fs_files[path[1]])
    ELSE None

\* a detection of sv.Detections: frame_detection[0], [2] and [3] (the class
\* by its name); the confidence in percent
Detection(bbox, conf, cls) == [bbox |-> bbox, conf |-> conf, cls |-> cls]

\* "for frame_detection in detection_supervision", from the i-th detection
\* on: chosen_bbox at the end. max_conf is compared but never assigned in
\* the loop.
RECURSIVE DetectionsLoop(_, _, _, _)
DetectionsLoop(detection_supervision, i, chosen_bbox, max_conf) ==
    IF i > Len(detection_supervision) THEN chosen_bbox
    ELSE
        LET bbox == detection_supervision[i].bbox
            cls_id == detection_supervision[i].cls
            conf == detection_supervision[i].conf
        IN  IF cls_id = "Ball" /\ max_conf < conf
            THEN DetectionsLoop(detection_supervision, i + 1, Some(bbox),
                                max_conf)
            ELSE DetectionsLoop(detection_supervision, i + 1, chosen_bbox,
                                max_conf)

\* tracks[frame_num] after the loop over the detections of the frame:
\* chosen_bbox = None, max_conf = 0, then
\* "if (chosen_bbox is not None): tracks[frame_num][1] = {"bbox": ...}"
FrameTracks(detection_supervision) ==
    LET chosen_bbox == DetectionsLoop(detection_supervision, 1, None, 0)
    IN  IF chosen_bbox # None THEN BallAt(chosen_bbox[1]) ELSE EmptyDict

\* get_object_tracks(frames, read_from_stub, stub_path), dets being what
\* detect_frames(frames) yields, one entry per frame: the outcome of the
\* call and the file system after it
get_object_tracks(dets, read, path, fs_dirs, fs_files) ==
    LET cached == read_stub(read, path, fs_files)
        computed == [f \in 1..Len(dets) |-> FrameTracks(dets[f])]
        saved == save_stub(path, computed, fs_dirs, fs_files)
    IN  IF cached # None /\ Len(cached[1]) = Len(dets)
        THEN [outcome |-> Returned(cached[1]),
              dirs |-> fs_dirs, files |-> fs_files]
        ELSE IF IsRaised(saved.outcome)
        THEN [outcome |-> saved.outcome, dirs |-> fs_dirs, files |-> fs_files]
        ELSE [outcome |-> Returned(computed),
              dirs |-> saved.dirs, files |-> saved.files]

\* most frames given to get_object_tracks
MaxBallFrames == 2

\* detections of a frame: two of the ball, one of a player
BallHigh == Detection(BallBox, 90, "Ball")
BallLow == Detection(FarBox, 60, "Ball")
PlayerDetection == Detection(ContainsBox, 95, "Player")

\* what the detector may find in a frame, in the order of iteration
FrameDetections ==
    { << >>,
      <<BallHigh>>,
      <<BallHigh, BallLow>>,
      <<BallLow, BallHigh>>,
      <<PlayerDetection, BallLow>>,
      <<BallHigh, PlayerDetection, BallLow>> }

StubPaths == { Path("", "ball_tracks.pkl"), Path("stubs", "ball_tracks.pkl") }

\* tracks saved by an earlier run on a video of n frames
StoredTracks == { [f \in 1..n |-> BallAt(HalfBox)] : n \in 1..MaxBallFrames }

\* the file system before the call: empty, an empty directory, or one stub
FileSystems ==
    { [dirs |-> {}, files |-> EmptyDict],
      [dirs |-> {"stubs"}, files |-> EmptyDict] }
    \cup { [dirs |-> IF p.dirname = "" THEN {} ELSE {p.dirname},
            files |-> p :> t] : p \in StubPaths, t \in StoredTracks }

InitBallTracker ==
    /\ mode = "ball"
    /\ \E n \in 0..MaxBallFrames : detections \in [1..n -> FrameDetections]
    /\ read_from_stub \in BOOLEAN
    /\ stub_path \in {None} \cup { Some(p) : p \in StubPaths }
    /\ \E fs \in FileSystems :
          /\ dirs = fs.dirs
          /\ files = fs.files
    /\ object_tracks = NotCalled
    /\ IdlePoss
    /\ IdleCndt
    /\ IdlePass
    /\ IdleHg
    /\ IdleMap
    /\ IdleVm
    /\ IdleKin
    /\ IdleTrim

\* ball_tracker.get_object_tracks(frames, read_from_stub, stub_path)
GetObjectTracks ==
    /\ mode = "ball"
    /\ object_tracks = NotCalled
    /\ LET r == get_object_tracks(detections, read_from_stub, stub_path,
                                  dirs, files)
       IN  /\ object_tracks' = r.outcome
           /\ dirs' = r.dirs
           /\ files' = r.files
    /\ UNCHANGED <<mode, detections, read_from_stub, stub_path, possVars,
                   cndtVars, passVars, hgVars, mapVars, vmVars, kinVars,
                   trimVars>>

-----------------------------------------------------------------------------
(* BallTracker.trim_false_detections (trackers/ball_tracker.py) *)

\* maximum_allowed_distance = 25
maximum_allowed_distance == 25

\* "if len(current_bbox) < 2: continue"
MinBboxLen == 2

\* "last_valid_frame_index = -1"
NoValidFrame == -1

\* ball_positions[i].get(1, {}).get("bbox", [])
bbox_at(positions, i) ==
    LET info == Get(At(positions, i), BallId, EmptyDict)
    IN  IF "bbox" \in DOMAIN info THEN info.bbox ELSE << >>

\* mutant: the allowed distance does not grow with the gap
adjusted_max_distance_Fixed(frame_gap) == maximum_allowed_distance

\* adjusted_max_distance = maximum_allowed_distance * frame_gap
adjusted_max_distance(frame_gap) == maximum_allowed_distance * frame_gap

\* dist = np.linalg.norm(np.array(current_bbox[:2]) -
\*                       np.array(last_valid_bbox[:2]));
\* "if dist > adjusted_max_distance", compared on the squares
TooFar(current_bbox, last_valid_bbox, frame_gap) ==
    DistSq(<<current_bbox[1], current_bbox[2]>>,
           <<last_valid_bbox[1], last_valid_bbox[2]>>)
        > adjusted_max_distance(frame_gap) * adjusted_max_distance(frame_gap)

\* "for i in range(len(ball_positions))", from i on: the list at the end
RECURSIVE TrimLoop(_, _, _)
TrimLoop(positions, i, last_valid_frame_index) ==
    IF i >= Len(positions) THEN positions
    ELSE
        LET current_bbox == bbox_at(positions, i)
            last_valid_bbox == bbox_at(positions, last_valid_frame_index)
            frame_gap == i - last_valid_frame_index
        IN  IF Len(current_bbox) < MinBboxLen
            THEN TrimLoop(positions, i + 1, last_valid_frame_index)
            ELSE IF last_valid_frame_index = NoValidFrame
            THEN TrimLoop(positions, i + 1, i)
            ELSE IF Len(last_valid_bbox) < MinBboxLen
            THEN TrimLoop(positions, i + 1, last_valid_frame_index)
            ELSE IF TooFar(current_bbox, last_valid_bbox, frame_gap)
            THEN TrimLoop([positions EXCEPT ![i + 1] = EmptyDict], i + 1,
                          last_valid_frame_index)
            ELSE TrimLoop(positions, i + 1, i)

\* trim_false_detections(ball_positions): the list, modified in place
trim_false_detections(positions) == TrimLoop(positions, 0, NoValidFrame)

\* most frames given to trim_false_detections
MaxTrimFrames == 4

\* a ball of 10 x 10 pixels whose top-left corner is (x, y)
BallBoxAt(x, y) == <<x, y, x + 10, y + 10>>

\* the ball dict of a frame: no ball, a bbox of one number, or a ball at
\* distance 0, 25, 26, 25 (diagonally) and 51 from (100, 100)
TrimScenes ==
    { BallAbsent,
      BallAt(<<100>>),
      BallAt(BallBoxAt(100, 100)),
      BallAt(BallBoxAt(125, 100)),
      BallAt(BallBoxAt(126, 100)),
      BallAt(BallBoxAt(115, 120)),
      BallAt(BallBoxAt(151, 100)) }

InitTrim ==
    /\ mode = "trim"
    /\ \E n \in 0..MaxTrimFrames : ball_positions \in [1..n -> TrimScenes]
    /\ trim_input = ball_positions
    /\ trim_result = NotCalled
    /\ IdlePoss
    /\ IdleCndt
    /\ IdlePass
    /\ IdleHg
    /\ IdleMap
    /\ IdleVm
    /\ IdleKin
    /\ IdleBt

\* main: ball_tracks = ball_tracker.trim_false_detections(ball_tracks)
TrimFalseDetections ==
    /\ mode = "trim"
    /\ trim_result = NotCalled
    /\ ball_positions' = trim_false_detections(ball_positions)
    /\ trim_result' = Returned(ball_positions')
    /\ UNCHANGED <<mode, trim_input, possVars, cndtVars, passVars, hgVars,
                   mapVars, vmVars, kinVars, btVars>>

-----------------------------------------------------------------------------
(* Specifications *)

\* detect_ball_possession on a video
SpecPoss == InitPoss /\ [][PossessionStep]_vars

\* find_best_cndt_for_poss on a frame
SpecCndt == InitCndt /\ [][FindBestCandidate]_vars

\* detect_passes, then detect_interception, on a possession series
SpecPass == InitPass /\ [][DetectPasses \/ DetectInterception]_vars

\* the possession detector and the pass / interception detectors
SpecDetectors ==
    (InitPoss \/ InitPass)
    /\ [][PossessionStep \/ DetectPasses \/ DetectInterception]_vars

\* the three functions that take two per-frame series, on series of
\* different lengths
SpecMisaligned ==
    (InitPossMisaligned \/ InitPassMisaligned \/ InitMapMisaligned)
    /\ [][PossessionStep \/ DetectPasses \/ DetectInterception
             \/ IntegratePlayers]_vars

Init ==
    \/ InitPoss
    \/ InitCndt
    \/ InitPass
    \/ InitHomography
    \/ InitMap
    \/ InitPossMisaligned
    \/ InitPassMisaligned
    \/ InitMapMisaligned
    \/ InitValidate
    \/ InitKin
    \/ InitPossLong
    \/ InitBallTracker
    \/ InitTrim

Next ==
    \/ PossessionStep
    \/ FindBestCandidate
    \/ DetectPasses
    \/ DetectInterception
    \/ ConstructHomography
    \/ TransformPoints
    \/ IntegratePlayers
    \/ ValidateMap
    \/ CalcDistStep
    \/ CalcSpeed
    \/ GetObjectTracks
    \/ TrimFalseDetections

\* the Homography constructor, then transform_points on the instance
SpecHomography ==
    InitHomography /\ [][ConstructHomography \/ TransformPoints]_vars

\* integrate_players_into_map on a video
SpecMap == InitMap /\ [][IntegratePlayers]_vars

\* validate_map on a video
SpecValidate == InitValidate /\ [][ValidateMap]_vars

\* calc_dist, then calc_speed, on a video
SpecKin == InitKin /\ [][CalcDistStep \/ CalcSpeed]_vars

\* detect_ball_possession on a long video
SpecPossLong == InitPossLong /\ [][PossessionStep]_vars

\* BallTracker.get_object_tracks on a video
SpecBallTracker == InitBallTracker /\ [][GetObjectTracks]_vars

\* trim_false_detections on a video
SpecTrim == InitTrim /\ [][TrimFalseDetections]_vars

\* every component
Spec == Init /\ [][Next]_vars

-----------------------------------------------------------------------------
(* The per-frame facts of the input that the claims speak about *)

\* the frames processed so far
Processed == 0..(frame_num - 1)

\* per processed frame, what the frame offered (index f + 1 for frame f)
Candidates == candidates

PlayerIds == {1, 2}

\* cand: the value of Candidates.  No streak of P is running before frame i:
\* the most recent ball-detected frame before i, if any, was not won by P.
NoStreakBefore(cand, i, P) ==
    \A g \in 0..(i - 1) :
        (At(cand, g).detected /\ \A k \in (g + 1)..(i - 1) : ~At(cand, k).detected)
            => At(cand, g) # Won(P)

\* the frame the last step processed
LastFrame == frame_num - 1

\* A step never changes the entry of a frame processed earlier, so what an
\* invariant finds at LastFrame is what detect_ball_possession returns there.
PossessionStable ==
    \A f \in Processed : At(possession_list', f) = At(possession_list, f)

\* for the frame j just processed: if no streak of P is running before frame
\* i and P wins the ball-detected frames i..j, j <= i + 10, then possession[j]
\* is -1 when j < i + 10 and P when j = i + 10
C1_AtLastFrame ==
    (mode = "poss" /\ frame_num > 0) =>
        LET cand == Candidates
            j == LastFrame
        IN  \A P \in PlayerIds : \A i \in (j - (min_frames - 1))..j :
                ( /\ i >= 0
                  /\ \A k \in i..j : At(cand, k) = Won(P)
                  /\ NoStreakBefore(cand, i, P) )
                => At(possession_list, j) =
                       IF j = i + min_frames - 1 THEN P ELSE NoId

\* C1: if the streak counter is empty before frame i and one player P is the
\* per-frame winning candidate in the 11 consecutive ball-detected frames
\* i..i+10, then possession[i..i+9] are all -1 and possession[i+10] = P; a
\* streak of only 10 winning frames never produces a non-sentinel output.
C1_StreakOfEleven == [](C1_AtLastFrame) /\ [][PossessionStable]_vars

\* a streak of exactly 11 frames that starts right after another player's
\* winning frame has just been reported
C1_Witness ==
    /\ mode = "poss"
    /\ frame_num >= min_frames + 1
    /\ LET cand == Candidates
           j == frame_num - 1
           i == j - (min_frames - 1)
       IN  /\ \A k \in i..j : At(cand, k) = Won(1)
           /\ At(cand, i - 1) = Won(2)
           /\ At(possession_list, j) = 1
           /\ \A k \in i..(j - 1) : At(possession_list, k) = NoId


\* the n most recent ball-detected frames within lo..hi
RecentDetected(cand, lo, hi, n) ==
    LET D == {k \in lo..hi : At(cand, k).detected}
    IN  {k \in D : Cardinality({k2 \in D : k2 >= k}) <= n}

\* within lo..hi there are at least min_frames ball-detected frames and the
\* min_frames most recent ones were all won by P
ElevenWonWithin(cand, lo, hi, P) ==
    LET recent == RecentDetected(cand, lo, hi, min_frames)
    IN  /\ Cardinality(recent) = min_frames
        /\ \A k \in recent : At(cand, k) = Won(P)

\* for the frame j just processed: a reported player won frame j and the 10
\* most recent ball-detected frames before it
C2_AtLastFrame ==
    (mode = "poss" /\ frame_num > 0) =>
        LET cand == Candidates
            j == LastFrame
            P == At(possession_list, j)
        IN  P # NoId =>
              /\ At(cand, j) = Won(P)
              /\ LET recent == RecentDetected(cand, 0, j - 1, min_frames - 1)
                 IN  /\ Cardinality(recent) = min_frames - 1
                     /\ \A k \in recent : At(cand, k) = Won(P)

\* C2: soundness of the debounce: whenever possession[f] = P with P # -1, the
\* ball was detected at f, P was the winning candidate at f, and P was the
\* winning candidate in each of the 10 most recent earlier ball-detected
\* frames.
C2_DebounceSound == [](C2_AtLastFrame) /\ [][PossessionStable]_vars

\* player 2 is reported at the last two frames (a streak of 12 or more), and
\* a frame won by player 1 lies before its streak
C2_Witness ==
    /\ mode = "poss"
    /\ frame_num >= min_frames + 1
    /\ At(possession_list, LastFrame) = 2
    /\ At(possession_list, LastFrame - 1) = 2
    /\ \E g \in Processed : At(Candidates, g) = Won(1)

\* the scenario of C3: the candidate sequence [1]*11 + [-1] + [1]*5
C3_ScenarioInput ==
    /\ mode = "poss"
    /\ frame_num = min_frames + 1 + 5
    /\ \A f \in Processed :
         At(Candidates, f) = IF f = min_frames THEN Won(NoId) ELSE Won(1)

\* for the frame j just processed: the scenario's output, and a reported
\* player has won 11 consecutive ball-detected frames after every earlier
\* frame without candidate
C3_AtLastFrame ==
    (mode = "poss" /\ frame_num > 0) =>
        LET cand == Candidates
            j == LastFrame
            P == At(possession_list, j)
        IN  /\ C3_ScenarioInput =>
                \A f \in Processed :
                    At(possession_list, f) =
                        IF f = min_frames - 1 THEN 1 ELSE NoId
            /\ P # NoId =>
                \A g \in 0..(j - 1) :
                    At(cand, g) = Won(NoId) => ElevenWonWithin(cand, g + 1, j, P)

\* C3: a ball-detected frame with no winning candidate breaks the streak: the
\* candidate sequence [1]*11 + [-1] + [1]*5 gives [-1]*10 + [1] + [-1] +
\* [-1]*5, and after any no-candidate frame a player is not reported again
\* until it has won 11 further consecutive frames.
C3_GapBreaksStreak == [](C3_AtLastFrame) /\ [][PossessionStable]_vars

\* the scenario has been processed to its last frame
C3_Witness ==
    /\ C3_ScenarioInput
    /\ At(possession_list, min_frames - 1) = 1
    /\ At(possession_list, LastFrame) = NoId

\* for the frame j just processed: when the candidate changes to A the streak
\* dict is exactly {A: 1}, and a reported player A has won 11 consecutive
\* ball-detected frames after every earlier frame won by another player B
C4_AtLastFrame ==
    (mode = "poss" /\ frame_num > 0) =>
        LET cand == Candidates
            j == LastFrame
            P == At(possession_list, j)
        IN  /\ \A A \in PlayerIds :
                ( /\ At(cand, j) = Won(A)
                  /\ \E g \in 0..(j - 1) :
                        /\ At(cand, g).detected
                        /\ At(cand, g).winner \notin {A, NoId}
                        /\ \A k \in (g + 1)..(j - 1) : ~At(cand, k).detected )
                => consecutive_poss_cnt = (A :> 1)
            /\ P # NoId =>
                \A g \in 0..(j - 1) :
                    ( At(cand, g).detected /\ At(cand, g).winner \notin {P, NoId} )
                    => ElevenWonWithin(cand, g + 1, j, P)

\* C4: streak state is global: when the winning candidate changes from A to B,
\* A's count is discarded; if A later wins again its count restarts from 1 and
\* A is not reported until it has won 11 consecutive frames after B's last
\* winning frame, however many frames A had won before B.
C4_StreakIsGlobal == [](C4_AtLastFrame) /\ [][PossessionStable]_vars

\* player 1 won frames, then player 2 won a frame, then player 1 is reported
C4_Witness ==
    /\ mode = "poss"
    /\ frame_num >= min_frames + 2
    /\ At(possession_list, LastFrame) = 1
    /\ \E g \in Processed : \E a \in 0..(g - 1) :
          /\ At(Candidates, g) = Won(2)
          /\ At(Candidates, a) = Won(1)

\* for the frame j just processed: an undetected frame reports -1; and if
\* frames i..j are all undetected or won by P, no streak of P is running
\* before i, and P wins frames i and j, then frame j reports P exactly when
\* i..j hold at least 11 ball-detected frames
C5_AtLastFrame ==
    (mode = "poss" /\ frame_num > 0) =>
        LET cand == Candidates
            j == LastFrame
        IN  /\ ~At(cand, j).detected => At(possession_list, j) = NoId
            /\ \A P \in PlayerIds :
                 At(cand, j) = Won(P) =>
                   \A i \in 0..j :
                     ( /\ At(cand, i) = Won(P)
                       /\ \A k \in i..j : At(cand, k) \in {Won(P), Undetected}
                       /\ NoStreakBefore(cand, i, P) )
                     => LET n == Cardinality({k \in i..j : At(cand, k).detected})
                        IN  At(possession_list, j) =
                                IF n >= min_frames THEN P ELSE NoId

\* a step that processes an undetected frame leaves the streak dict as it was
C5_SkipKeepsStreak ==
    ( /\ mode = "poss"
      /\ frame_num' = frame_num + 1
      /\ ~At(candidates', frame_num).detected )
    => consecutive_poss_cnt' = consecutive_poss_cnt

\* C5: a frame in which the ball is undetected (no entry at ball id 1, or an
\* empty bbox) reports -1 and leaves the streak counter unchanged: k winning
\* frames of P before the gap and m after it count as one streak of k + m, and
\* P is reported from the frame where k + m reaches 11.
C5_UndetectedKeepsStreak ==
    [](C5_AtLastFrame) /\ [][C5_SkipKeepsStreak /\ PossessionStable]_vars

\* player 1 is reported for the first time at the last frame, its 11th
\* winning frame, and an undetected frame lies between two of its winning
\* frames
C5_Witness ==
    /\ mode = "poss"
    /\ frame_num >= min_frames + 1
    /\ At(possession_list, LastFrame) = 1
    /\ \A f \in 0..(LastFrame - 1) : At(possession_list, f) = NoId
    /\ \E u \in Processed :
          /\ ~At(Candidates, u).detected
          /\ \E a \in 0..(u - 1) : At(Candidates, a) = Won(1)
    /\ Cardinality({k \in Processed : At(Candidates, k) = Won(1)}) = min_frames


-----------------------------------------------------------------------------
(* find_best_cndt_for_poss: what the claims say about one frame *)

\* the positions of the players of the frame that have a bbox
CndtWithBbox == {i \in DOMAIN cndt_players : cndt_players[i].bbox # << >>}

CndtContainment(i) ==
    calc_ball_cont_ratio(cndt_players[i].bbox, cndt_ball_bbox)

\* the squared minimum key-point distance of the i-th player
CndtDistSq(i) ==
    min_dist_to_ball(cndt_players[i].bbox, get_center_of_bbox(cndt_ball_bbox))

\* the players with containment ratio > 0.8
CndtClose ==
    {i \in CndtWithBbox :
        CndtContainment(i).num * ContainmentDen
            > ContainmentNum * CndtContainment(i).den}

\* the player's bbox covers the whole ball bbox
FullyContains(player_bbox, ball_bbox) ==
    /\ player_bbox[1] <= ball_bbox[1]
    /\ player_bbox[2] <= ball_bbox[2]
    /\ ball_bbox[3] <= player_bbox[3]
    /\ ball_bbox[4] <= player_bbox[4]

\* C6: if at least one player has containment ratio > 0.8, the winner is a
\* player with the maximum containment ratio among those, the first such in
\* iteration order on ties, whatever the key-point distances are; in
\* particular a player whose bbox fully contains the ball bbox (containment
\* 1.0) beats any player that is closer in distance but has containment
\* <= 0.8.
C6_ContainmentWins ==
    (mode = "cndt" /\ cndt_result # NotCalled) =>
        /\ CndtClose # {} =>
             \E i \in CndtClose :
                /\ ValueOf(cndt_result) = cndt_players[i].id
                /\ \A j \in CndtClose :
                      /\ ~RatioGT(CndtContainment(j), CndtContainment(i))
                      /\ j < i => RatioGT(CndtContainment(i), CndtContainment(j))
        /\ \A i \in CndtClose : \A j \in CndtWithBbox \ CndtClose :
             ( /\ FullyContains(cndt_players[i].bbox, cndt_ball_bbox)
               /\ CndtDistSq(j) < CndtDistSq(i) )
             => ValueOf(cndt_result) # cndt_players[j].id

\* the second player contains the ball and wins over the first player, who
\* is nearer to the ball centre and overlaps only half of the ball
C6_Witness ==
    /\ mode = "cndt"
    /\ cndt_result # NotCalled
    /\ Len(cndt_players) = 2
    /\ cndt_players[1].bbox = HalfBox
    /\ 2 \in CndtClose
    /\ FullyContains(cndt_players[2].bbox, cndt_ball_bbox)
    /\ CndtDistSq(1) < CndtDistSq(2)
    /\ ValueOf(cndt_result) = cndt_players[2].id

\* C7: when no player has containment ratio > 0.8 (as with every zero-area
\* ball bbox), the winner is the player with the smallest minimum key-point
\* distance (the first such) if and only if that distance is strictly less
\* than 50 pixels; with distance 50 or more, or with no player having a bbox,
\* the result is -1.
C7_DistanceFallback ==
    (mode = "cndt" /\ cndt_result # NotCalled /\ CndtClose = {}) =>
        IF CndtWithBbox = {}
        THEN ValueOf(cndt_result) = NoId
        ELSE LET nearest == SetMin({CndtDistSq(i) : i \in CndtWithBbox})
                 first == SetMin({i \in CndtWithBbox : CndtDistSq(i) = nearest})
             IN  ValueOf(cndt_result) =
                    IF nearest < possession_threshold * possession_threshold
                    THEN cndt_players[first].id ELSE NoId

\* two players with a bbox, none close, the nearest exactly 50 pixels from the
\* ball centre: nobody wins
C7_Witness ==
    /\ mode = "cndt"
    /\ cndt_result # NotCalled
    /\ CndtClose = {}
    /\ Cardinality(CndtWithBbox) = 2
    /\ SetMin({CndtDistSq(i) : i \in CndtWithBbox})
           = possession_threshold * possession_threshold
    /\ ValueOf(cndt_result) = NoId

-----------------------------------------------------------------------------
(* The pass and interception detectors: what the claims say *)

PassFrames == 0..(Len(ball_acquisition) - 1)

\* the most recent frame before f with a holder, as a set of at most one frame
PrevHolderFrame(f) ==
    {p \in 0..(f - 1) :
        /\ At(ball_acquisition, p) # NoId
        /\ \A k \in (p + 1)..(f - 1) : At(ball_acquisition, k) = NoId}

\* the team that player_teams[f] assigns to player, -1 if none
TeamAt(f, player) == Get(At(player_teams, f), player, NoId)

\* C8: every output value is the sentinel or is drawn from that same frame's
\* input: possession[f] is -1 or the id of a player present (with a bbox) in
\* player_tracks[f]; passes[f] and interceptions[f] are -1 or the team id that
\* player_teams[f] assigns to possession[f].
C8_OutputsFromSameFrame ==
    /\ mode = "poss" =>
         \A f \in 0..(num_frames - 1) :
            \/ At(possession_list, f) = NoId
            \/ /\ f \in Processed
               /\ \E i \in DOMAIN At(player_tracks, f) :
                     /\ At(player_tracks, f)[i].id = At(possession_list, f)
                     /\ At(player_tracks, f)[i].bbox # << >>
    /\ (mode = "pass" /\ passes # NotCalled) =>
         \A f \in PassFrames :
            At(ValueOf(passes), f) \in {NoId, TeamAt(f, At(ball_acquisition, f))}
    /\ (mode = "pass" /\ interceptions # NotCalled) =>
         \A f \in PassFrames :
            At(ValueOf(interceptions), f)
                \in {NoId, TeamAt(f, At(ball_acquisition, f))}

\* an interception by player 2 is tagged with team 2, the team of player 2 in
\* that frame, while the frame assigns team 1 to the player who lost the ball
C8_Witness ==
    /\ mode = "pass"
    /\ interceptions # NotCalled
    /\ \E f \in PassFrames :
          /\ At(ball_acquisition, f) = 2
          /\ At(ValueOf(interceptions), f) = 2
          /\ TeamAt(f, 1) = 1

\* C9: for every possession series and every team-assignment series, and for
\* every frame f, detect_passes and detect_interception never both report an
\* event at f.
C9_PassXorInterception ==
    (mode = "pass" /\ passes # NotCalled /\ interceptions # NotCalled) =>
        \A f \in PassFrames :
            ~( At(ValueOf(passes), f) # NoId
               /\ At(ValueOf(interceptions), f) # NoId )

\* one series with a pass at one frame and an interception at the next
C9_Witness ==
    /\ mode = "pass"
    /\ passes # NotCalled
    /\ interceptions # NotCalled
    /\ \E f \in PassFrames :
          /\ f + 1 \in PassFrames
          /\ At(ValueOf(passes), f) # NoId
          /\ At(ValueOf(interceptions), f + 1) # NoId

\* C10: when the holder changes from A to a different valid holder B at frame
\* f (A being the last known holder) and both resolve to the same valid team
\* t, each in its own frame, detect_passes records passes[f] = t and
\* detect_interception records interceptions[f] = -1.
C10_SameTeamIsPass ==
    (mode = "pass" /\ passes # NotCalled /\ interceptions # NotCalled) =>
        \A f \in PassFrames : \A p \in PrevHolderFrame(f) :
            LET A == At(ball_acquisition, p)
                B == At(ball_acquisition, f)
                t == TeamAt(p, A)
            IN  (B # NoId /\ B # A /\ t # NoId /\ TeamAt(f, B) = t)
                => /\ At(ValueOf(passes), f) = t
                   /\ At(ValueOf(interceptions), f) = NoId

\* the team map {1: 1, 2: 1} in every frame, player 1 holds the ball at frame
\* 0, nobody in between, player 2 at the last frame: a pass of team 1 there
C10_Witness ==
    /\ mode = "pass"
    /\ passes # NotCalled
    /\ interceptions # NotCalled
    /\ Len(ball_acquisition) = MaxPassFrames
    /\ \A f \in PassFrames :
          /\ At(player_teams, f) = (1 :> 1) @@ (2 :> 1)
          /\ At(ball_acquisition, f) =
                IF f = 0 THEN 1 ELSE IF f = MaxPassFrames - 1 THEN 2 ELSE NoId
    /\ At(ValueOf(passes), MaxPassFrames - 1) = 1
    /\ At(ValueOf(interceptions), MaxPassFrames - 1) = NoId

\* both detectors have returned their list
BothReturned ==
    /\ mode = "pass"
    /\ IsReturned(passes)
    /\ IsReturned(interceptions)

\* C11: when the holder changes from A (the last known holder) to a different
\* valid holder B at frame f and the two resolve to different valid teams,
\* detect_interception records interceptions[f] = the team of the NEW holder
\* B, and detect_passes records passes[f] = -1.
C11_InterceptionTagsNewTeam ==
    BothReturned =>
        \A f \in PassFrames : \A p \in PrevHolderFrame(f) :
            LET A == At(ball_acquisition, p)
                B == At(ball_acquisition, f)
                ta == TeamAt(p, A)
                tb == TeamAt(f, B)
            IN  (B # NoId /\ B # A /\ ta # NoId /\ tb # NoId /\ ta # tb)
                => /\ At(ValueOf(interceptions), f) = tb
                   /\ At(ValueOf(passes), f) = NoId

\* the team map {1: 1, 2: 2} in every frame, player 1 holds the ball up to
\* the last frame, where player 2 has it: an interception of team 2 there
C11_Witness ==
    /\ BothReturned
    /\ Len(ball_acquisition) = MaxPassFrames
    /\ \A f \in PassFrames :
          /\ At(player_teams, f) = (1 :> 1) @@ (2 :> 2)
          /\ At(ball_acquisition, f) = IF f = MaxPassFrames - 1 THEN 2 ELSE 1
    /\ At(ValueOf(interceptions), MaxPassFrames - 1) = 2
    /\ At(ValueOf(passes), MaxPassFrames - 1) = NoId

\* C12: the last known holder is carried forward across any number of -1
\* frames and each team is looked up in its own frame: for possession A at
\* frame p, -1 on frames p+1..f-1 and B # A at frame f, the event is recorded
\* at frame f only, from player_teams[p][A] and player_teams[f][B], whatever
\* player_teams[f] says of A.
C12_OwnFrameLookup ==
    BothReturned =>
        \A f \in PassFrames : \A p \in PrevHolderFrame(f) :
            LET A == At(ball_acquisition, p)
                B == At(ball_acquisition, f)
                ta == Get(At(player_teams, p), A, NoId)
                tb == Get(At(player_teams, f), B, NoId)
            IN  (B # NoId /\ B # A)
                => /\ At(ValueOf(passes), f) =
                         IF ta = tb /\ ta # NoId THEN ta ELSE NoId
                   /\ At(ValueOf(interceptions), f) =
                         IF ta # tb /\ ta # NoId /\ tb # NoId THEN tb ELSE NoId
                   /\ \A k \in (p + 1)..(f - 1) :
                         /\ At(ValueOf(passes), k) = NoId
                         /\ At(ValueOf(interceptions), k) = NoId

\* player 1 (team 1 at frame 0) holds the ball at frame 0, nobody on the
\* frames in between, player 2 (team 1) at the last frame, whose team map
\* does not contain player 1: a pass of team 1 at the last frame
C12_Witness ==
    /\ BothReturned
    /\ Len(ball_acquisition) = MaxPassFrames
    /\ MaxPassFrames >= 3
    /\ At(ball_acquisition, 0) = 1
    /\ At(player_teams, 0) = (1 :> 1) @@ (2 :> 2)
    /\ \A k \in 1..(MaxPassFrames - 2) : At(ball_acquisition, k) = NoId
    /\ At(ball_acquisition, MaxPassFrames - 1) = 2
    /\ At(player_teams, MaxPassFrames - 1) = (2 :> 1)
    /\ At(ValueOf(passes), MaxPassFrames - 1) = 1
    /\ At(ValueOf(interceptions), MaxPassFrames - 1) = NoId

\* C13: detect_passes and detect_interception both return (they do not
\* raise) and report -1 at frame f when the holder at f is -1, when no
\* earlier frame has a holder, when the holder at f is the last known holder
\* (also after -1 frames), or when either holder is missing from its own
\* frame's team map.
C13_NoEventCases ==
    (mode = "pass" /\ passes # NotCalled /\ interceptions # NotCalled) =>
        /\ IsReturned(passes)
        /\ IsReturned(interceptions)
        /\ \A f \in PassFrames :
              LET B == At(ball_acquisition, f)
                  prev == PrevHolderFrame(f)
              IN  ( \/ B = NoId
                    \/ prev = {}
                    \/ \E p \in prev :
                          \/ At(ball_acquisition, p) = B
                          \/ TeamAt(p, At(ball_acquisition, p)) = NoId
                          \/ TeamAt(f, B) = NoId )
                  => /\ At(ValueOf(passes), f) = NoId
                     /\ At(ValueOf(interceptions), f) = NoId

\* player 1, who is in no team at frame 0, holds the ball there; player 2
\* (team 1) takes it at frame 1, loses it, and has it again at the last
\* frame: no event at all
C13_Witness ==
    /\ BothReturned
    /\ Len(ball_acquisition) = MaxPassFrames
    /\ MaxPassFrames >= 4
    /\ At(ball_acquisition, 0) = 1
    /\ At(player_teams, 0) = (2 :> 1)
    /\ At(ball_acquisition, 1) = 2
    /\ TeamAt(1, 2) = 1
    /\ \A k \in 2..(MaxPassFrames - 2) : At(ball_acquisition, k) = NoId
    /\ At(ball_acquisition, MaxPassFrames - 1) = 2
    /\ \A f \in PassFrames :
          /\ At(ValueOf(passes), f) = NoId
          /\ At(ValueOf(interceptions), f) = NoId

\* C14: the possession, pass and interception series have exactly one entry
\* per frame: len(possession) = len(ball_tracks), also for an empty video and
\* for a video with undetected (skipped) frames, and len(passes) =
\* len(interceptions) = len(possession series received), for inputs of equal
\* length.
C14_OneEntryPerFrame ==
    /\ mode = "poss" =>
          /\ Len(possession_list) = num_frames
          /\ frame_num = num_frames => Len(ball_tracks) = Len(possession_list)
    /\ (mode = "pass" /\ passes # NotCalled) =>
          /\ IsReturned(passes)
          /\ Len(ValueOf(passes)) = Len(ball_acquisition)
    /\ (mode = "pass" /\ interceptions # NotCalled) =>
          /\ IsReturned(interceptions)
          /\ Len(ValueOf(interceptions)) = Len(ball_acquisition)
          /\ Len(ValueOf(interceptions)) = Len(ValueOf(passes))

\* a whole video has been processed, some of its frames were skipped because
\* the ball was undetected, and every frame has its entry
C14_Witness ==
    /\ mode = "poss"
    /\ num_frames = MaxFrames
    /\ frame_num = num_frames
    /\ \E f \in Processed : At(candidates, f) = Undetected
    /\ \E f \in Processed : At(possession_list, f) # NoId
    /\ Len(possession_list) = Len(ball_tracks)

-----------------------------------------------------------------------------
(* Homography: what the claims say *)

\* the array is N x 2
IsNx2(a) == Len(a.shape) = 2 /\ a.shape[2] = 2

\* the array has no element
IsEmpty(a) == \E d \in 1..Len(a.shape) : a.shape[d] = 0

\* the number of rows of an N x 2 array
Rows(a) == a.shape[1]

\* C19: constructing a Homography fails with ValueError (InvalidInput) when
\* source and target differ in point count or shape, when the points are not
\* N x 2, when fewer than 4 correspondences are given, or when no transform
\* can be computed; in none of these cases is an instance produced.
C19_InvalidInputOnBadPoints ==
    (mode = "homography" /\ homography # NotCalled) =>
        /\ ( \/ source.shape # target.shape
             \/ ~IsNx2(source)
             \/ Rows(source) < 4 )
           => homography = Raised("ValueError")
        /\ ~IsReturned(homography) => homography = Raised("ValueError")

C20_AfterTransform ==
    (mode = "homography" /\ trans_points # NotCalled) =>
        /\ IsEmpty(points) => trans_points = Returned(points)
        /\ (~IsNx2(points) /\ ~IsEmpty(points))
              => trans_points = Raised("ValueError")
        /\ (IsNx2(points) /\ ~IsEmpty(points)) =>
              /\ IsReturned(trans_points)
              /\ ValueOf(trans_points).shape = <<Rows(points), 2>>
              /\ Len(ValueOf(trans_points).data) = Rows(points)

-----------------------------------------------------------------------------
(* CourtMap.integrate_players_into_map: what the claims say *)

MapFrames == 0..(Len(keypoints_list) - 1)

\* the keypoint indices of frame f whose two coordinates are strictly positive
DetectedIn(f) ==
    {i \in 0..(Len(At(keypoints_list, f)) - 1) :
        At(keypoints_list, f)[i + 1][1] > 0 /\ At(keypoints_list, f)[i + 1][2] > 0}

\* the players of frame f with a bbox of four numbers, and the others
WellFormed(f) ==
    {At(map_player_tracks, f)[i].id : i \in
        {j \in DOMAIN At(map_player_tracks, f) :
            Len(At(map_player_tracks, f)[j].bbox) = 4}}
Malformed(f) ==
    {At(map_player_tracks, f)[i].id : i \in
        {j \in DOMAIN At(map_player_tracks, f) :
            Len(At(map_player_tracks, f)[j].bbox) # 4}}

\* C16: integrate_players_into_map never raises to its caller because of a
\* single bad frame or player: a frame whose homography cannot be built
\* yields an empty mapping, a player whose foot position cannot be obtained
\* (an empty or malformed bbox) is omitted from its frame, and every other
\* frame and every other player of the same frame is still mapped.
C16_NeverRaises ==
    (mode = "map" /\ map_player_positions # NotCalled) =>
        /\ IsReturned(map_player_positions)
        /\ Len(ValueOf(map_player_positions)) = Len(keypoints_list)
        /\ \A f \in MapFrames :
              LET mapped == DOMAIN At(ValueOf(map_player_positions), f)
              IN  /\ mapped \cap Malformed(f) = {}
                  /\ mapped \in {{}, WellFormed(f)}
                  /\ Cardinality(DetectedIn(f)) < 4 => mapped = {}

\* C17: a frame with fewer than 4 detected keypoints (both coordinates
\* strictly positive) produces an empty mapping and is not an error: the
\* output has one entry per frame, empty for such a frame, and when the call
\* raises it is for a player of a frame that has 4 detected keypoints or more.
C17_FewKeypointsEmptyFrame ==
    (mode = "map" /\ map_player_positions # NotCalled) =>
        /\ IsReturned(map_player_positions) =>
              /\ Len(ValueOf(map_player_positions)) = Len(keypoints_list)
              /\ \A f \in MapFrames :
                    Cardinality(DetectedIn(f)) < 4
                    => DOMAIN At(ValueOf(map_player_positions), f) = {}
        /\ IsRaised(map_player_positions) =>
              \E f \in MapFrames :
                  /\ Cardinality(DetectedIn(f)) >= 4
                  /\ Malformed(f) # {}

\* two frames: the first has 3 detected keypoints, two half-detected ones
\* and a player without bbox, and gets an empty mapping; the players of the
\* second are mapped
C17_Witness ==
    /\ mode = "map"
    /\ IsReturned(map_player_positions)
    /\ Len(keypoints_list) = 2
    /\ Cardinality(DetectedIn(0)) = 3
    /\ \E i \in 1..Len(keypoints) : At(keypoints_list, 0)[i] = <<5, 0>>
    /\ Malformed(0) # {}
    /\ DOMAIN At(ValueOf(map_player_positions), 0) = {}
    /\ DOMAIN At(ValueOf(map_player_positions), 1) = {1, 2}

\* C18: for every frame the k-th source point and the k-th target point
\* passed to the homography belong to the same keypoint index: a detected
\* keypoint of index i is paired with map keypoint i.
C18_PairedByIndex ==
    mode = "map" =>
        \A c \in DOMAIN homography_calls :
            LET call == homography_calls[c]
                src == call.source_points.data
                dst == call.target_points.data
            IN  /\ Len(src) = Cardinality(DetectedIn(call.frame))
                /\ Len(dst) = Len(src)
                /\ \A k \in 1..Len(src) :
                      \E i \in DetectedIn(call.frame) :
                          /\ src[k] = At(At(keypoints_list, call.frame), i)
                          /\ dst[k] = At(keypoints, i)

\* a homography built from the detected keypoints 1, 6, 9 and 17: the first
\* pair is (detected keypoint 1, map keypoint 1), not map keypoint 0
C18_Witness ==
    /\ mode = "map"
    /\ \E c \in DOMAIN homography_calls :
          /\ DetectedIn(homography_calls[c].frame) = {1, 6, 9, 17}
          /\ homography_calls[c].source_points.data[1] = DetectedAt(1)
          /\ homography_calls[c].target_points.data[1] = At(keypoints, 1)
          /\ homography_calls[c].target_points.data[4] = At(keypoints, 17)

-----------------------------------------------------------------------------
(* Series of different lengths: what the claim says *)

\* C15: when per-frame series of different lengths are passed to
\* detect_ball_possession (player_tracks, ball_tracks), to detect_passes or
\* detect_interception (possession, player_teams) or to
\* integrate_players_into_map (keypoints, player_tracks), the call fails
\* immediately with an error: it processes no frame and returns no result.
C15_FailFastOnMisaligned ==
    /\ mode = "misaligned_poss" =>
          /\ frame_num = 0
          /\ frame_num < num_frames
    /\ mode = "misaligned_pass" =>
          /\ passes # NotCalled => IsRaised(passes)
          /\ interceptions # NotCalled => IsRaised(interceptions)
    /\ mode = "misaligned_map" =>
          (map_player_positions # NotCalled
              => IsRaised(map_player_positions))

-----------------------------------------------------------------------------
(* validate_map: what the claims say *)

VmFrames == 0..(Len(vm_keypoints_list) - 1)

\* the indices of the keypoints detected in frame f of the input
VmDetected(f) ==
    { i \in 0..(Len(keypoints) - 1) :
        /\ At(At(vm_keypoints_list, f), i)[1] > 0
        /\ At(At(vm_keypoints_list, f), i)[2] > 0 }

\* the detected keypoints of frame f that are (0, 0) in the output
VmZeroed(f) ==
    { i \in VmDetected(f) : At(At(ValueOf(vm_result), f), i) = <<0, 0>> }

\* the detected indices other than i1 that were not invalidated before i1
\* was visited
VmReferences(f, i1) ==
    { i \in VmDetected(f) \ {i1} : ~(i < i1 /\ i \in VmZeroed(f)) }

\* the relative error between dist(i1, i2) / dist(i1, i3) in frame f and in
\* the map is greater than 0.8: the frame ratio is infinite, more than 9/5
\* of the map ratio or less than 1/5 of it (81/25 and 1/25 on the squares)
VmRelErrAbove(f, i1, i2, i3) ==
    LET frame_kps == At(vm_keypoints_list, f)
        a == DistSq(At(frame_kps, i1), At(frame_kps, i2))
                 * DistSq(At(keypoints, i1), At(keypoints, i3))
        b == DistSq(At(frame_kps, i1), At(frame_kps, i3))
                 * DistSq(At(keypoints, i1), At(keypoints, i2))
    IN  \/ b = 0
        \/ FracGT(a, b, 81, 25)
        \/ FracGT(1, 25, a, b)

\* C21: in a frame with at least 3 detected keypoints validate_map visits
\* the detected indices in increasing order; the references of i1 are the
\* first two detected indices other than i1 that were not invalidated
\* earlier in the frame; i1 is zeroed exactly when such references exist and
\* the relative error of the distance ratio is strictly greater than 0.8;
\* an invalidated index is never a reference of a later index.
C21_ValidateMapRule ==
    (mode = "validate" /\ IsReturned(vm_result)) =>
        \A f \in VmFrames :
            Cardinality(VmDetected(f)) >= 3 =>
                LET checks == At(vm_checks, f)
                IN  /\ \A k, l \in DOMAIN checks :
                          k < l => checks[k].i1 < checks[l].i1
                    /\ \A k, l \in DOMAIN checks :
                          (k < l /\ checks[k].invalid) =>
                              /\ checks[l].i2 # checks[k].i1
                              /\ checks[l].i3 # checks[k].i1
                    /\ \A k \in DOMAIN checks :
                          checks[k].i1 \in VmDetected(f)
                    /\ \A i1 \in VmDetected(f) :
                          LET refs == VmReferences(f, i1)
                              i2 == SetMin(refs)
                              i3 == SetMin(refs \ {i2})
                          IN  IF Cardinality(refs) >= 2
                              THEN /\ \E k \in DOMAIN checks :
                                         /\ checks[k].i1 = i1
                                         /\ checks[k].i2 = i2
                                         /\ checks[k].i3 = i3
                                   /\ i1 \in VmZeroed(f)
                                         <=> VmRelErrAbove(f, i1, i2, i3)
                              ELSE /\ i1 \notin VmZeroed(f)
                                   /\ \A k \in DOMAIN checks :
                                         checks[k].i1 # i1

\* a frame with four detected keypoints: the first one visited is zeroed, a
\* later one is compared with references that skip it and is kept
C21_Witness ==
    /\ mode = "validate"
    /\ IsReturned(vm_result)
    /\ \E f \in VmFrames :
          /\ Cardinality(VmDetected(f)) = 4
          /\ \E i1, j1 \in VmDetected(f) :
                /\ i1 = SetMin(VmDetected(f))
                /\ i1 \in VmZeroed(f)
                /\ j1 > i1
                /\ j1 \notin VmZeroed(f)
                /\ \E k \in DOMAIN At(vm_checks, f) :
                      /\ At(vm_checks, f)[k].i1 = j1
                      /\ At(vm_checks, f)[k].i2 > i1
                      /\ ~At(vm_checks, f)[k].invalid

\* C27: validate_map only removes keypoints and never too many: every
\* output keypoint equals the input keypoint or is zeroed, no undetected
\* keypoint becomes detected, a frame with fewer than 3 detected keypoints
\* is returned unchanged and a frame with at least 3 detected keypoints
\* keeps at least 2 of them.
C27_OnlyRemovesKeepsTwo ==
    (mode = "validate" /\ IsReturned(vm_result)) =>
        /\ Len(ValueOf(vm_result)) = Len(vm_keypoints_list)
        /\ \A f \in VmFrames :
              LET in == At(vm_keypoints_list, f)
                  out == At(ValueOf(vm_result), f)
              IN  /\ Len(out) = Len(in)
                  /\ \A i \in 0..(Len(in) - 1) :
                        /\ At(out, i) = At(in, i) \/ At(out, i) = <<0, 0>>
                        /\ i \notin VmDetected(f) => At(out, i) = At(in, i)
                  /\ Cardinality(VmDetected(f)) < 3 => out = in
                  /\ Cardinality(VmDetected(f)) >= 3 =>
                        Cardinality(VmDetected(f) \ VmZeroed(f)) >= 2

\* a frame with 3 detected keypoints of which one is zeroed, next to a frame
\* with 2 detected keypoints that coincide and are both kept
C27_Witness ==
    /\ mode = "validate"
    /\ IsReturned(vm_result)
    /\ \E f \in VmFrames :
          /\ Cardinality(VmDetected(f)) = 3
          /\ Cardinality(VmZeroed(f)) = 1
    /\ \E f \in VmFrames :
          /\ Cardinality(VmDetected(f)) = 2
          /\ \A i \in VmDetected(f) :
                At(At(vm_keypoints_list, f), i) = StackPos
          /\ At(ValueOf(vm_result), f) = At(vm_keypoints_list, f)

-----------------------------------------------------------------------------
(* SpeedAndDistCalc: what the claims say *)

\* the frames calc_dist has processed
KinFrames == 0..(kin_frame_num - 1)

KinPlayers == {1, 2}

\* player p is mapped in frame f
MappedAt(p, f) == p \in DOMAIN At(player_positions, f)

\* the frames before f in which p is mapped
MappedBefore(p, f) == { g \in KinFrames : g < f /\ MappedAt(p, g) }

SetMax(S) == CHOOSE m \in S : \A x \in S : m >= x

\* the position, the distance and the speed of p at frame f, if any
PosOf(p, f) == Get(At(player_positions, f), p, Unmapped)
DistOf(p, f) == Get(At(out_distances, f), p, -1)
SpeedOf(p, f) == Get(At(ValueOf(speeds), f), p, Speed(-1, 1))

\* C22: calc_dist reports a distance for player p at frame f if and only if
\* p is mapped at f and was mapped in an earlier frame; the distance is
\* measured from p's most recent earlier mapped position, also across
\* frames in which p was unmapped; the first appearance gives no entry but
\* seeds the last-seen position.
C22_DistanceFromLastSeen ==
    mode = "kin" =>
        /\ Len(out_distances) = kin_frame_num
        /\ \A p \in KinPlayers :
              /\ \A f \in KinFrames :
                    /\ p \in DOMAIN At(out_distances, f)
                          <=> (MappedAt(p, f) /\ MappedBefore(p, f) # {})
                    /\ p \in DOMAIN At(out_distances, f) =>
                          At(out_distances, f)[p] =
                              calc_m_dist(
                                  At(player_positions,
                                     SetMax(MappedBefore(p, f)))[p],
                                  At(player_positions, f)[p])
              /\ p \in DOMAIN prev_player_positions
                    <=> MappedBefore(p, kin_frame_num) # {}
              /\ p \in DOMAIN prev_player_positions =>
                    prev_player_positions[p] =
                        At(player_positions,
                           SetMax(MappedBefore(p, kin_frame_num)))[p]

\* player 1 appears at PosA in frame 0 (no distance entry), is unmapped in
\* frame 1 and is at PosB in frame 2: the distance of frame 2 is that of two
\* pixels along x
C22_Witness ==
    /\ mode = "kin"
    /\ kin_frame_num >= 3
    /\ PosOf(1, 0) = PosA
    /\ 1 \notin DOMAIN At(out_distances, 0)
    /\ ~MappedAt(1, 1)
    /\ 1 \notin DOMAIN At(out_distances, 1)
    /\ PosOf(1, 2) = PosB
    /\ DistOf(1, 2) = 2 * actual_width_cm * height * 2

\* the frames of the window of frame f in which p has a distance entry
WindowEntries(p, f) ==
    { i \in 0..f : i >= f - 14 /\ p \in DOMAIN At(out_distances, i) }

RECURSIVE SumDistances(_, _)
SumDistances(p, S) ==
    IF S = {} THEN 0
    ELSE LET i == CHOOSE i \in S : TRUE
         IN  At(out_distances, i)[p] + SumDistances(p, S \ {i})

Stationary(p) ==
    \A f, g \in KinFrames :
        (MappedAt(p, f) /\ MappedAt(p, g)) =>
            At(player_positions, f)[p] = At(player_positions, g)[p]

\* C24: for a player whose mapped position is the same in every frame,
\* calc_dist reports distance 0 in every frame after the first appearance
\* in which the player is mapped, and calc_speed reports speed 0 wherever
\* it reports a speed, whatever the frames in which the player is unmapped.
C24_StationaryIsZero ==
    mode = "kin" =>
        \A p \in KinPlayers :
            Stationary(p) =>
                /\ \A f \in KinFrames :
                      (MappedAt(p, f) /\ MappedBefore(p, f) # {}) =>
                          /\ p \in DOMAIN At(out_distances, f)
                          /\ At(out_distances, f)[p] = 0
                /\ IsReturned(speeds) =>
                      \A f \in KinFrames :
                          p \in DOMAIN At(ValueOf(speeds), f) =>
                              At(ValueOf(speeds), f)[p].num = 0

\* player 1 is at PosA, then unmapped, then at PosA again until frame 16,
\* where its speed is computed from 6 or more distances, all 0
C24_Witness ==
    /\ mode = "kin"
    /\ IsReturned(speeds)
    /\ kin_frame_num = 17
    /\ Stationary(1)
    /\ PosOf(1, 0) = PosA
    /\ \E f \in KinFrames : ~MappedAt(1, f)
    /\ DistOf(1, 16) = 0
    /\ SpeedOf(1, 16).den >= 6
    /\ SpeedOf(1, 16).num = 0

-----------------------------------------------------------------------------
(* detect_ball_possession: how far apart two holders are *)

\* the processed frames between f and g that report nobody
SentinelsBetween(f, g) ==
    { k \in (f + 1)..(g - 1) : At(possession_list, k) = -1 }

\* C26: in the output of detect_ball_possession two frames f < g that
\* report different holders (other than -1) are at least 11 frames apart,
\* so two adjacent frames never report two different players, and at least
\* 10 frames with -1 lie between them.
C26_HoldersFarApart ==
    \A f, g \in 0..(frame_num - 1) :
        (/\ f < g
         /\ At(possession_list, f) # -1
         /\ At(possession_list, g) # -1
         /\ At(possession_list, f) # At(possession_list, g)) =>
            /\ g - f >= 11
            /\ Cardinality(SentinelsBetween(f, g)) >= 10

\* player 1 is reported at frame 10 and at frame 11, player 2 from frame 22
\* on: the last frame of player 1 and the first of player 2 are exactly 11
\* frames apart
C26_Witness ==
    /\ mode = "poss_long"
    /\ frame_num = 23
    /\ At(possession_list, 10) = 1
    /\ At(possession_list, 11) = 1
    /\ At(possession_list, 21) = -1
    /\ At(possession_list, 22) = 2

-----------------------------------------------------------------------------
(* BallTracker.get_object_tracks and save_stub: what the claims say *)

\* the call reads its result from the stub file
StubHit ==
    /\ read_from_stub
    /\ stub_path # None
    /\ stub_path[1] \in DOMAIN files
    /\ Len(files[stub_path[1]]) = Len(detections)

\* the detections of class Ball of frame f
BallDetections(f) ==
    { d \in { At(detections, f)[i] : i \in DOMAIN At(detections, f) } :
        d.cls = "Ball" }

\* C28: when get_object_tracks computes the tracks and a frame has several
\* detections of class Ball, the bbox stored at ball id 1 for that frame is
\* that of the Ball detection with the highest confidence, whatever the
\* order of the detections.
C28_HighestConfidenceStored ==
    [][(mode = "ball" /\ ~StubHit /\ IsReturned(object_tracks')) =>
          \A f \in 0..(Len(detections) - 1) :
              BallDetections(f) # {} =>
                  \E d \in BallDetections(f) :
                      /\ \A e \in BallDetections(f) : e.conf <= d.conf
                      /\ At(ValueOf(object_tracks'), f) = BallAt(d.bbox)]_vars

\* C30: get_object_tracks called with stub_path = None saves nothing and
\* returns the computed tracks without error.
C30_NoStubPathReturns ==
    [][(mode = "ball" /\ stub_path = None
           /\ object_tracks' # object_tracks) =>
          /\ IsReturned(object_tracks')
          /\ Len(ValueOf(object_tracks')) = Len(detections)
          /\ files' = files
          /\ dirs' = dirs]_vars

-----------------------------------------------------------------------------
(* trim_false_detections: what the claim says *)

TrimFrames == 0..(Len(trim_input) - 1)

\* the frames of the input that hold a detection: a bbox of two or more
\* numbers at ball id 1
TrimDetections ==
    { f \in TrimFrames :
        /\ BallId \in DOMAIN At(trim_input, f)
        /\ Len(At(trim_input, f)[BallId].bbox) >= 2 }

\* the detections that the output keeps, and those it replaces by {}
TrimRetained ==
    { f \in TrimDetections :
        At(ValueOf(trim_result), f) = At(trim_input, f) }
TrimRemoved ==
    { f \in TrimDetections : At(ValueOf(trim_result), f) = EmptyDict }

\* the square of the distance between the positions of the detections of
\* frames a and b
TrimDistSq(a, b) ==
    LET p == At(trim_input, a)[BallId].bbox
        q == At(trim_input, b)[BallId].bbox
    IN  (p[1] - q[1]) * (p[1] - q[1]) + (p[2] - q[2]) * (p[2] - q[2])

====
